---- MODULE Spec2Model ----
(***************************************************************************)
(* Model of the STRR permit validation service                             *)
(* (strr_api/services/validation_service.py).                              *)
(*                                                                         *)
(* Text is modelled as a sequence of one-character strings, so that the    *)
(* string operations of the service (lower, strip, split, replace, slices  *)
(* and the regular expressions of the unit-number normalizer) are computed *)
(* character by character as Python computes them.                         *)
(***************************************************************************)
EXTENDS Integers, Sequences, FiniteSets, TLC

(***************************************************************************)
(* Bounds of the model.                                                    *)
(***************************************************************************)
\* longest unit-number string given to the normalizer in NormSpec
MaxLen == 3
\* number of times the normalizer is applied to its own result in NormSpec
MaxApplications == 2
\* number of validate_permit calls followed in one behaviour of Spec
MaxCalls == 2
\* most buildings of a strata hotel
MaxBuildings == 2
\* longest claimed street number, claimed postal code, unit number and
\* street-address line of the generated inputs of MatchSpec (the permit's
\* street number is one character shorter, its postal code one longer)
MaxStreetLen == 3
MaxPostalLen == 4
MaxUnitLen == 2
MaxLineLen == 3
\* most rows of the application table
MaxRows == 3
\* how many different application numbers the generator returns in NumberSpec
MaxNumbers == 3
\* most certificates of a registration
MaxCertificates == 2

(***************************************************************************)
(* Characters and the str methods used by the service.                     *)
(***************************************************************************)
UpperLetters ==
    <<"A","B","C","D","E","F","G","H","I","J","K","L","M",
      "N","O","P","Q","R","S","T","U","V","W","X","Y","Z">>

LowerLetters ==
    <<"a","b","c","d","e","f","g","h","i","j","k","l","m",
      "n","o","p","q","r","s","t","u","v","w","x","y","z">>

Digits == {"0","1","2","3","4","5","6","7","8","9"}

\* the characters str.strip() removes and the regular expression \s matches
Whitespace == {" ", "\t", "\n", "\r"}

Range(f) == {f[i] : i \in DOMAIN f}

\* the regular expression class \w
WordChars == Range(UpperLetters) \cup Range(LowerLetters) \cup Digits \cup {"_"}

IsWordChar(c) == c \in WordChars

lower_char(c) ==
    IF c \in Range(UpperLetters)
    THEN LowerLetters[CHOOSE i \in DOMAIN UpperLetters : UpperLetters[i] = c]
    ELSE c

upper_char(c) ==
    IF c \in Range(LowerLetters)
    THEN UpperLetters[CHOOSE i \in DOMAIN LowerLetters : LowerLetters[i] = c]
    ELSE c

\* str.lower()
lower(s) == [i \in 1..Len(s) |-> lower_char(s[i])]

\* str.upper()
upper(s) == [i \in 1..Len(s) |-> upper_char(s[i])]

\* s[:n]
Take(s, n) == SubSeq(s, 1, IF n < Len(s) THEN n ELSE Len(s))

\* s[n:]  (n characters dropped)
Drop(s, n) == SubSeq(s, n + 1, Len(s))

\* str.strip(): leading and trailing whitespace removed
strip(s) ==
    LET inner == {i \in 1..Len(s) : s[i] \notin Whitespace}
    IN  IF inner = {} THEN <<>>
        ELSE SubSeq(s, CHOOSE i \in inner : \A j \in inner : i <= j,
                       CHOOSE i \in inner : \A j \in inner : j <= i)

\* str.replace(" ", ""): every space character removed (and only spaces)
replace_spaces(s) == SelectSeq(s, LAMBDA c : c # " ")

\* str.split(" ")[0]: the text before the first space character
split_first(s) ==
    LET sp == {i \in 1..Len(s) : s[i] = " "}
    IN  IF sp = {} THEN s
        ELSE SubSeq(s, 1, (CHOOSE i \in sp : \A j \in sp : i <= j) - 1)

(***************************************************************************)
(* The regular expressions of _get_filtered_unit_number.                   *)
(***************************************************************************)
\* \b before the character at index i (1..Len(s)+1)
WordBoundary(s, i) ==
    LET before == i > 1 /\ IsWordChar(s[i - 1])
        after  == i <= Len(s) /\ IsWordChar(s[i])
    IN  before # after

\* number of characters from index i on that belong to S (a greedy run)
RECURSIVE RunLen(_, _, _)
RunLen(s, i, S) ==
    IF i <= Len(s) /\ s[i] \in S THEN 1 + RunLen(s, i + 1, S) ELSE 0

\* re.sub(r"^[#-]+\s*", "", unit_number)
strip_leading_marks(s) ==
    LET marks  == RunLen(s, 1, {"#", "-"})
        spaces == RunLen(s, marks + 1, Whitespace)
    IN  IF marks = 0 THEN s ELSE Drop(s, marks + spaces)

\* the alternatives of the keyword expression, in the order written, in
\* lower case (the flag is IGNORECASE); No\.? is greedy: "no." before "no"
Keywords ==
    << <<"s","u","i","t","e">>,
       <<"u","n","i","t">>,
       <<"s","l">>,
       <<"s","t","r","a","t","a"," ","l","o","t">>,
       <<"r","o","o","m">>,
       <<"l","o","t">>,
       <<"r","m">>,
       <<"c","a","b","i","n">>,
       <<"b","l","d","g">>,
       <<"s","t","e">>,
       <<"n","b","r">>,
       <<"u","n","t">>,
       <<"a","p","a","r","t","m","e","n","t">>,
       <<"a","p","t">>,
       <<"n","u","m","b","e","r">>,
       <<"n","u","m">>,
       <<"f","l","o","o","r">>,
       <<"f","l","r">>,
       <<"f","l">>,
       <<"b","u","i","l","d","i","n","g">>,
       <<"n","o",".">>,
       <<"n","o">> >>

KeywordAt(s, i, k) ==
    /\ i + Len(Keywords[k]) - 1 <= Len(s)
    /\ lower(SubSeq(s, i, i + Len(Keywords[k]) - 1)) = Keywords[k]

\* length of the text the expression \b(Suite|Unit|...) matches at index i
\* (0 when it does not match): the first alternative that matches wins
KeywordMatchLen(s, i) ==
    LET hits == {k \in DOMAIN Keywords : KeywordAt(s, i, k)}
    IN  IF WordBoundary(s, i) /\ hits # {}
        THEN Len(Keywords[CHOOSE k \in hits : \A j \in hits : k <= j])
        ELSE 0

\* re.sub(r"\b(Suite|Unit|...|No\.?)", "", unit_number, flags=re.IGNORECASE)
RECURSIVE remove_keywords_from(_, _)
remove_keywords_from(s, i) ==
    IF i > Len(s) THEN <<>>
    ELSE LET m == KeywordMatchLen(s, i)
         IN  IF m > 0 THEN remove_keywords_from(s, i + m)
             ELSE <<s[i]>> \o remove_keywords_from(s, i + 1)

remove_keywords(s) == remove_keywords_from(s, 1)

\* re.sub(r"[-.\s]+", "", unit_number)
remove_separators(s) ==
    SelectSeq(s, LAMBDA c : c \notin ({"-", "."} \cup Whitespace))

\* re.sub(r"\b0+(\w+)", r"\1", unit_number): at a word boundary 0+ takes the
\* zeros greedily and \w+ the rest of the word; when the word is all zeros
\* 0+ gives one zero back to \w+; a lone zero does not match
RECURSIVE strip_leading_zeros_from(_, _)
strip_leading_zeros_from(s, i) ==
    IF i > Len(s) THEN <<>>
    ELSE LET zeros == RunLen(s, i, {"0"})
             rest  == RunLen(s, i + zeros, WordChars)
         IN  IF WordBoundary(s, i) /\ zeros > 0 /\ rest > 0
             THEN SubSeq(s, i + zeros, i + zeros + rest - 1)
                    \o strip_leading_zeros_from(s, i + zeros + rest)
             ELSE IF WordBoundary(s, i) /\ zeros > 1
             THEN <<"0">> \o strip_leading_zeros_from(s, i + zeros)
             ELSE <<s[i]>> \o strip_leading_zeros_from(s, i + 1)

\* the leading-zero step written as re.sub(r"\b0+", "", unit_number): every
\* run of zeros at a word boundary removed, whatever follows it
RECURSIVE strip_zero_runs_from(_, _)
strip_zero_runs_from(s, i) ==
    IF i > Len(s) THEN <<>>
    ELSE LET zeros == RunLen(s, i, {"0"})
         IN  IF WordBoundary(s, i) /\ zeros > 0
             THEN strip_zero_runs_from(s, i + zeros)
             ELSE <<s[i]>> \o strip_zero_runs_from(s, i + 1)

strip_leading_zeros_unconditional(s) == strip_zero_runs_from(s, 1)

strip_leading_zeros(s) == strip_leading_zeros_from(s, 1)

\* ValidationService._get_filtered_unit_number
get_filtered_unit_number(unit_number) ==
    upper(strip_leading_zeros(remove_separators(remove_keywords(
        strip_leading_marks(unit_number)))))

(***************************************************************************)
(* JSON objects (dict) are functions from keys to values; None is a value  *)
(* distinct from every text.                                               *)
(***************************************************************************)
None == <<"<None>">>

\* Python truthiness of an optional text: None and "" are false
Truthy(x) == x # None /\ x # <<>>

\* dict.get(key, default)
Get(d, k, default) == IF k \in DOMAIN d THEN d[k] ELSE default

\* d[key] = value
Put(d, k, v) == [x \in DOMAIN d \cup {k} |-> IF x = k THEN v ELSE d[x]]

\* str(x) of a text or of None
str(x) == IF x = None THEN <<"N","o","n","e">> ELSE x

\* HTTPStatus
OK == 200
BAD_REQUEST == 400
NOT_FOUND == 404

\* ErrorMessage (strr_api.enums.enum): the message of each error code
ErrorMessage ==
    [PERMIT_NOT_FOUND       |-> "Permit does not exist.",
     STREET_NUMBER_MISMATCH |-> "Street number does not match.",
     POSTAL_CODE_MISMATCH   |-> "Postal code does not match.",
     UNIT_NUMBER_MISMATCH   |-> "Unit number does not match.",
     ADDRESS_MISMATCH       |-> "Address does not match."]

\* {"code": ErrorMessage.X.name, "message": ErrorMessage.X.value}
Error(code) == [code |-> code, message |-> ErrorMessage[code]]

(***************************************************************************)
(* DateUtil.as_legislation_timezone(expiry_date).strftime("%Y-%m-%d").     *)
(* A datetime is [year, month, day, hour] in UTC; the legislation time     *)
(* zone is America/Vancouver: UTC-8, UTC-7 under daylight saving time (the *)
(* model uses no date of March or November, where the offset changes       *)
(* within the month).                                                      *)
(***************************************************************************)
DaysInMonth(year, month) ==
    IF month = 2
    THEN (IF year % 4 = 0 /\ (year % 100 # 0 \/ year % 400 = 0) THEN 29 ELSE 28)
    ELSE IF month \in {4, 6, 9, 11} THEN 30 ELSE 31

as_legislation_timezone(d) ==
    LET offset == IF d.month \in 4..10 THEN 7 ELSE 8
    IN  IF d.hour >= offset THEN [d EXCEPT !.hour = @ - offset]
        ELSE IF d.day > 1
             THEN [d EXCEPT !.hour = @ + 24 - offset, !.day = @ - 1]
        ELSE IF d.month > 1
             THEN [d EXCEPT !.hour = @ + 24 - offset, !.month = @ - 1,
                            !.day = DaysInMonth(d.year, d.month - 1)]
        ELSE [d EXCEPT !.hour = @ + 24 - offset, !.year = @ - 1,
                       !.month = 12, !.day = 31]

DigitChar == <<"0","1","2","3","4","5","6","7","8","9">>

\* the decimal digits of n, zero-padded to the given width
RECURSIVE ZeroPad(_, _)
ZeroPad(n, width) ==
    IF width = 0 THEN <<>>
    ELSE ZeroPad(n \div 10, width - 1) \o <<DigitChar[(n % 10) + 1]>>

\* datetime.strftime("%Y-%m-%d")
strftime_ymd(d) ==
    ZeroPad(d.year, 4) \o <<"-">> \o ZeroPad(d.month, 2) \o <<"-">> \o ZeroPad(d.day, 2)

(***************************************************************************)
(* ValidationService.check_permit_details                                  *)
(***************************************************************************)
\* _get_text_after_hyphen without the split at the hyphen
get_text_after_hyphen_whole_line(address_line) == address_line

\* ValidationService._get_text_after_hyphen
get_text_after_hyphen(address_line) ==
    LET hy == {i \in 1..Len(address_line) : address_line[i] = "-"}
    IN  IF hy # {}
        THEN strip(Drop(address_line, CHOOSE i \in hy : \A j \in hy : i <= j))
        ELSE address_line

\* ValidationService._extract_street_number
extract_street_number(address) == split_first(strip(address))

\* the street number test without lower() on the permit's street number
street_number_mismatch_case_sensitive(address_json, address) ==
    LET request_street_number     == strip(lower(str(Get(address_json, "streetNumber", None))))
        request_street_number_sub == split_first(request_street_number)
        permit_street_number      == address.street_number
    IN  /\ Truthy(permit_street_number)
        /\ strip(permit_street_number)
             \notin {request_street_number, request_street_number_sub}

\* Street Number validation (host): TRUE when the error is appended
street_number_mismatch(address_json, address) ==
    LET request_street_number     == strip(lower(str(Get(address_json, "streetNumber", None))))
        request_street_number_sub == split_first(request_street_number)
        permit_street_number      == address.street_number
    IN  /\ Truthy(permit_street_number)
        /\ strip(lower(permit_street_number))
             \notin {request_street_number, request_street_number_sub}

\* the postal code test comparing the first 3 characters instead of 4
postal_code_mismatch_prefix_3(address_json, address) ==
    LET request_postal_code == lower(replace_spaces(Get(address_json, "postalCode", <<>>)))
        permit_postal_code  == lower(replace_spaces(address.postal_code))
    IN  ~ \/ request_postal_code = permit_postal_code
          \/ /\ Len(request_postal_code) >= 3
             /\ Take(request_postal_code, 3) = Take(permit_postal_code, 3)

\* Postal code validation (host): TRUE when the error is appended
postal_code_mismatch(address_json, address) ==
    LET request_postal_code == lower(replace_spaces(Get(address_json, "postalCode", <<>>)))
        permit_postal_code  == lower(replace_spaces(address.postal_code))
    IN  ~ \/ request_postal_code = permit_postal_code
          \/ /\ Len(request_postal_code) >= 4
             /\ Take(request_postal_code, 4) = Take(permit_postal_code, 4)

\* the unit number test accepting a request without unit number
unit_number_mismatch_claim_optional(address_json, address) ==
    LET input_unit_number  == Get(address_json, "unitNumber", None)
        permit_unit_number == address.unit_number
    IN  IF Truthy(input_unit_number)
        THEN IF Truthy(permit_unit_number)
             THEN get_filtered_unit_number(input_unit_number)
                    # get_filtered_unit_number(permit_unit_number)
             ELSE TRUE
        ELSE FALSE

\* Unit number validation (host): has_unit_number_validation_error
unit_number_mismatch(address_json, address) ==
    LET input_unit_number  == Get(address_json, "unitNumber", None)
        permit_unit_number == address.unit_number
    IN  IF Truthy(input_unit_number)
        THEN IF Truthy(permit_unit_number)
             THEN get_filtered_unit_number(input_unit_number)
                    # get_filtered_unit_number(permit_unit_number)
             ELSE TRUE
        ELSE Truthy(permit_unit_number)

\* the condition under which match_found is set for one address of a strata
\* hotel (its primary location or one of its buildings)
strata_address_matches(address_json, address) ==
    LET request_street_number     == strip(str(Get(address_json, "streetNumber", None)))
        request_street_number_sub == split_first(request_street_number)
        permit_street_number      ==
            str(extract_street_number(get_text_after_hyphen(address.street_address)))
    IN  /\ permit_street_number \in {request_street_number, request_street_number_sub}
        /\ Take(lower(replace_spaces(Get(address_json, "postalCode", <<>>))), 4)
             = Take(lower(replace_spaces(address.postal_code)), 4)

\* the loop over the buildings without the break
RECURSIVE strata_buildings_loop_no_break(_, _, _)
strata_buildings_loop_no_break(address_json, buildings, i) ==
    IF i > Len(buildings) THEN [match_found |-> FALSE, examined |-> <<>>]
    ELSE LET later == strata_buildings_loop_no_break(address_json, buildings, i + 1)
         IN  [match_found |-> later.match_found
                                \/ strata_address_matches(address_json, buildings[i].address),
              examined    |-> <<i>> \o later.examined]

\* if not match_found: for building in strata_hotel.buildings: ... break
\* from building i on; examined lists the indexes of the buildings examined
RECURSIVE strata_buildings_loop(_, _, _)
strata_buildings_loop(address_json, buildings, i) ==
    IF i > Len(buildings) THEN [match_found |-> FALSE, examined |-> <<>>]
    ELSE IF strata_address_matches(address_json, buildings[i].address)
    THEN [match_found |-> TRUE, examined |-> <<i>>]
    ELSE LET later == strata_buildings_loop(address_json, buildings, i + 1)
         IN  [match_found |-> later.match_found, examined |-> <<i>> \o later.examined]

\* the strata branch up to the final value of match_found; examined lists
\* the addresses examined in order: 0 is the primary location, i > 0 the
\* i-th building
strata_match(address_json, strata_hotel) ==
    IF strata_address_matches(address_json, strata_hotel.location)
    THEN [match_found |-> TRUE, examined |-> <<0>>]
    ELSE LET loop == strata_buildings_loop(address_json, strata_hotel.buildings, 1)
         IN  [match_found |-> loop.match_found, examined |-> <<0>> \o loop.examined]

\* the host branch stopping at the first failing check
host_errors_first_only(address_json, address) ==
    IF street_number_mismatch(address_json, address)
    THEN <<Error("STREET_NUMBER_MISMATCH")>>
    ELSE IF postal_code_mismatch(address_json, address)
    THEN <<Error("POSTAL_CODE_MISMATCH")>>
    ELSE IF unit_number_mismatch(address_json, address)
    THEN <<Error("UNIT_NUMBER_MISMATCH")>>
    ELSE <<>>

\* errors of the host branch, in the order appended
host_errors(address_json, address) ==
    (IF street_number_mismatch(address_json, address)
        THEN <<Error("STREET_NUMBER_MISMATCH")>> ELSE <<>>)
    \o (IF postal_code_mismatch(address_json, address)
        THEN <<Error("POSTAL_CODE_MISMATCH")>> ELSE <<>>)
    \o (IF unit_number_mismatch(address_json, address)
        THEN <<Error("UNIT_NUMBER_MISMATCH")>> ELSE <<>>)

\* lines 172-178: the errors of the strata branch, given the outcome of the
\* search, and the addresses examined
strata_errors(found) ==
    [errors |-> IF found.match_found THEN <<>> ELSE <<Error("ADDRESS_MISMATCH")>>,
     checks |-> found.examined]

\* the branches of the registration type with the strata branch taken by
\* every registration that is not a host's (else instead of elif, line 145):
\* a registration of another type has no strata hotel to match and ends with
\* ADDRESS_MISMATCH
address_checks_else_strata(request_json, registration) ==
    IF registration.registration_type = "HOST"
    THEN [errors |-> host_errors(request_json["address"],
                                 registration.rental_property.address),
          checks |-> <<"streetNumber", "postalCode", "unitNumber">>]
    ELSE IF registration.registration_type = "STRATA_HOTEL"
    THEN strata_errors(strata_match(request_json["address"],
                           registration.strata_hotel_registration.strata_hotel))
    ELSE [errors |-> <<Error("ADDRESS_MISMATCH")>>, checks |-> <<0>>]

\* the errors appended by the branch of the registration type (lines 91-178)
\* and the address checks performed on the way, in order: the three host
\* checks by name, or the strata addresses examined
address_checks(request_json, registration) ==
    IF registration.registration_type = "HOST"
    THEN [errors |-> host_errors(request_json["address"],
                                 registration.rental_property.address),
          checks |-> <<"streetNumber", "postalCode", "unitNumber">>]
    ELSE IF registration.registration_type = "STRATA_HOTEL"
    THEN strata_errors(strata_match(request_json["address"],
                           registration.strata_hotel_registration.strata_hotel))
    ELSE [errors |-> <<>>, checks |-> <<>>]

\* lines 180-186 setting the status next to the errors
checked_response_partial(request_json, registration, checked) ==
    IF checked.errors # <<>>
    THEN [response    |-> Put(Put(request_json, "errors", checked.errors),
                              "status", registration.status),
          status_code |-> BAD_REQUEST,
          checks      |-> checked.checks]
    ELSE [response    |-> Put(Put(request_json, "status", registration.status),
                              "validUntil",
                              strftime_ymd(as_legislation_timezone(registration.expiry_date))),
          status_code |-> OK,
          checks      |-> checked.checks]

\* lines 180-186: the response and status code of an ACTIVE registration,
\* given the errors collected; response starts as copy.deepcopy(request_json),
\* a value equal to the request
checked_response(request_json, registration, checked) ==
    IF checked.errors # <<>>
    THEN [response    |-> Put(request_json, "errors", checked.errors),
          status_code |-> BAD_REQUEST,
          checks      |-> checked.checks]
    ELSE [response    |-> Put(Put(request_json, "status", registration.status),
                              "validUntil",
                              strftime_ymd(as_legislation_timezone(registration.expiry_date))),
          status_code |-> OK,
          checks      |-> checked.checks]

\* lines 180-186 with the status test of line 88 moved behind the errors
checked_response_status_last(request_json, registration, checked) ==
    IF checked.errors # <<>>
    THEN [response    |-> Put(request_json, "errors", checked.errors),
          status_code |-> BAD_REQUEST,
          checks      |-> checked.checks]
    ELSE IF registration.status # "ACTIVE"
    THEN [response    |-> Put(request_json, "status", registration.status),
          status_code |-> OK,
          checks      |-> checked.checks]
    ELSE [response    |-> Put(Put(request_json, "status", registration.status),
                              "validUntil",
                              strftime_ymd(as_legislation_timezone(registration.expiry_date))),
          status_code |-> OK,
          checks      |-> checked.checks]

\* check_permit_details with the status test moved behind the address checks
check_permit_details_checks_first(request_json, registration) ==
    checked_response_status_last(request_json, registration,
                                 address_checks(request_json, registration))

\* returns response, status_code (and the address checks performed on the way)
check_permit_details(request_json, registration) ==
    IF registration.status # "ACTIVE"
    THEN [response    |-> Put(request_json, "status", registration.status),
          status_code |-> OK,
          checks      |-> <<>>]
    ELSE checked_response(request_json, registration,
                          address_checks(request_json, registration))

\* the arguments after the call when response is bound to the request itself
\* (response = request_json, no copy): the assignments to response at lines
\* 89 and 181-185 then write into the request
check_permit_details_arguments_aliased(request_json, registration) ==
    [request_json |-> check_permit_details(request_json, registration).response,
     registration |-> registration]

\* the objects passed to check_permit_details as the call leaves them: the
\* only assignments are to the locals status_code, errors, match_found and
\* the street numbers, and to the keys of response, which is a deep copy of
\* the request (line 87) and shares no object with it; the registration is
\* only read
check_permit_details_arguments(request_json, registration) ==
    [request_json |-> request_json, registration |-> registration]

\* one address of a strata hotel makes check_permit_details raise: a missing
\* street-address line at '"-" in address_line' (line 212, TypeError), a
\* missing postal code at postal_code.replace (lines 156, 167,
\* AttributeError), which is evaluated only when the street number matched
strata_address_raises(address_json, address) ==
    \/ address.street_address = None
    \/ /\ str(extract_street_number(get_text_after_hyphen(address.street_address)))
             \in {strip(str(Get(address_json, "streetNumber", None))),
                  split_first(strip(str(Get(address_json, "streetNumber", None))))}
       /\ address.postal_code = None

\* the loop over the buildings raises at building i or at a later one
RECURSIVE strata_buildings_raise(_, _, _)
strata_buildings_raise(address_json, buildings, i) ==
    IF i > Len(buildings) THEN FALSE
    ELSE IF strata_address_raises(address_json, buildings[i].address) THEN TRUE
    ELSE IF strata_address_matches(address_json, buildings[i].address) THEN FALSE
    ELSE strata_buildings_raise(address_json, buildings, i + 1)

\* check_permit_details ends in an exception instead of returning: for an
\* ACTIVE host registration a missing postal code at postal_code.replace
\* (line 113); for an ACTIVE strata hotel the first address examined that
\* raises; the street number and the unit number of a host are tested for
\* truth before use (lines 100, 125, 134) and never raise
check_permit_details_raises(request_json, registration) ==
    /\ registration.status = "ACTIVE"
    /\ IF registration.registration_type = "HOST"
       THEN registration.rental_property.address.postal_code = None
       ELSE IF registration.registration_type = "STRATA_HOTEL"
       THEN LET strata_hotel == registration.strata_hotel_registration.strata_hotel
            IN  \/ strata_address_raises(request_json["address"], strata_hotel.location)
                \/ /\ ~strata_address_matches(request_json["address"], strata_hotel.location)
                   /\ strata_buildings_raise(request_json["address"],
                                             strata_hotel.buildings, 1)
       ELSE FALSE

(***************************************************************************)
(* Collaborators of validate_permit.                                       *)
(***************************************************************************)
\* validate(request_json, "real_time_validation"): identifier and address
\* are required, and in the address streetNumber and postalCode; the result
\* is [valid, errors], one error for each missing property
schema_errors(request_json) ==
    (IF "identifier" \in DOMAIN request_json THEN <<>>
     ELSE <<[path |-> "", message |-> "'identifier' is a required property"]>>)
    \o (IF "address" \in DOMAIN request_json THEN <<>>
        ELSE <<[path |-> "", message |-> "'address' is a required property"]>>)
    \o (IF "address" \in DOMAIN request_json
           /\ "streetNumber" \notin DOMAIN request_json["address"]
        THEN <<[path |-> "address", message |-> "'streetNumber' is a required property"]>>
        ELSE <<>>)
    \o (IF "address" \in DOMAIN request_json
           /\ "postalCode" \notin DOMAIN request_json["address"]
        THEN <<[path |-> "address", message |-> "'postalCode' is a required property"]>>
        ELSE <<>>)

validation_result(errors) == [valid |-> errors = <<>>, errors |-> errors]

validate(request_json) == validation_result(schema_errors(request_json))

\* RegistrationService.find_by_registration_number: is there a registration
\* with this number in the table
registration_found(table, identifier) == identifier \in DOMAIN table

\* ValidationService.create_real_time_validation_audit_record: the record saved
create_real_time_validation_audit_record(request, response, status) ==
    [request_json |-> request, response_json |-> response, status_code |-> status]

(***************************************************************************)
(* ValidationService.validate_permit                                       *)
(***************************************************************************)
\* a result of check_permit_details, with the collaborators called to get it
with_calls(result, called) ==
    [response |-> result.response, status_code |-> result.status_code,
     checks   |-> result.checks,   calls       |-> called]

\* lines 65-67 reached after a lookup of the registration
invalid_response_after_lookup(errors) ==
    [response |-> Put(<<>>, "errors", errors), status_code |-> BAD_REQUEST,
     checks   |-> <<>>, calls |-> <<"validate", "find_by_registration_number">>]

\* lines 65-67: the schema errors become the response
invalid_response(errors) ==
    [response |-> Put(<<>>, "errors", errors), status_code |-> BAD_REQUEST,
     checks   |-> <<>>, calls |-> <<"validate">>]

\* validate_permit_outcome answering an unknown registration number with 400
validate_permit_outcome_not_found_400(request_json, table) ==
    IF ~validate(request_json).valid
    THEN invalid_response(validate(request_json).errors)
    ELSE IF registration_found(table, request_json["identifier"])
    THEN with_calls(check_permit_details(request_json, table[request_json["identifier"]]),
                    <<"validate", "find_by_registration_number", "check_permit_details">>)
    ELSE [response |-> Put(<<>>, "errors", <<Error("PERMIT_NOT_FOUND")>>),
          status_code |-> BAD_REQUEST,
          checks   |-> <<>>, calls |-> <<"validate", "find_by_registration_number">>]

\* lines 61-77: response and status_code before the audit record is written,
\* with the address checks performed and the collaborators called, in order
validate_permit_outcome(request_json, table) ==
    IF ~validate(request_json).valid
    THEN invalid_response(validate(request_json).errors)
    ELSE IF registration_found(table, request_json["identifier"])
    THEN with_calls(check_permit_details(request_json, table[request_json["identifier"]]),
                    <<"validate", "find_by_registration_number", "check_permit_details">>)
    ELSE [response |-> Put(<<>>, "errors", <<Error("PERMIT_NOT_FOUND")>>),
          status_code |-> NOT_FOUND,
          checks   |-> <<>>, calls |-> <<"validate", "find_by_registration_number">>]

\* lines 79-81 writing the audit record only for a response without errors
audited_on_success(request_json, outcome) ==
    [response    |-> outcome.response,
     status_code |-> outcome.status_code,
     checks      |-> outcome.checks,
     saved       |-> IF outcome.status_code = OK
                     THEN <<create_real_time_validation_audit_record(
                              request_json, outcome.response, outcome.status_code)>>
                     ELSE <<>>,
     calls       |-> outcome.calls
                       \o (IF outcome.status_code = OK
                           THEN <<"create_real_time_validation_audit_record">> ELSE <<>>)
                       \o <<"return">>]

\* lines 79-81: the audit record is saved, then response and status_code are
\* returned
audited(request_json, outcome) ==
    [response    |-> outcome.response,
     status_code |-> outcome.status_code,
     checks      |-> outcome.checks,
     saved       |-> <<create_real_time_validation_audit_record(
                          request_json, outcome.response, outcome.status_code)>>,
     calls       |-> outcome.calls \o <<"create_real_time_validation_audit_record",
                                        "return">>]

\* validate_permit writing the audit record only for a response without errors
validate_permit_audit_success_only(request_json, table) ==
    audited_on_success(request_json, validate_permit_outcome(request_json, table))

\* the whole call: what it returns (response, status_code), the audit
\* records it saves, the address checks performed and the collaborators
\* called, in order
validate_permit(request_json, table) ==
    audited(request_json, validate_permit_outcome(request_json, table))

(***************************************************************************)
(* Application (strr_api/models/application.py): the queries find_by_account *)
(* and search_applications over the application table, and                 *)
(* generate_unique_application_number.                                     *)
(*                                                                         *)
(* A row of the table is a record; a column that is NULL holds None. The   *)
(* application_json of a row is a function from the paths the requirement  *)
(* filters read to the text of the JSON value there ("true"/"false" for a  *)
(* JSON boolean); a path the document lacks is not in its domain. The      *)
(* registration and the reviewer of a row are sequences of at most one     *)
(* record: empty when the row has none.                                    *)
(***************************************************************************)
\* Application.Status.DRAFT and other values of the status column
DRAFT == <<"D","R","A","F","T">>
PAID == <<"P","A","I","D">>
FULL_REVIEW == <<"F","U","L","L","_","R","E","V","I","E","W">>

\* column.ilike(f"%{term}%"): term occurs in text, letter case ignored (the
\* terms of the model hold no % and no _)
ilike(text, term) ==
    /\ text # None
    /\ \E i \in 1..(Len(text) - Len(term) + 1) :
          lower(SubSeq(text, i, i + Len(term) - 1)) = lower(term)

\* [x.upper() for x in values if x], as the set IN tests against
upper_all(values) == {upper(values[i]) : i \in {j \in DOMAIN values : values[j] # <<>>}}

\* Application._filter_by_registration_types: the condition on row a
filter_by_registration_types(registration_types, a) ==
    IF ~Truthy(registration_types) THEN TRUE
    ELSE a.registration_type \in upper_all(registration_types)

\* Application._filter_by_application_registration_number
filter_by_application_registration_number(search_term, a) ==
    IF ~Truthy(search_term) THEN TRUE
    ELSE \/ ilike(a.application_number, strip(search_term))
         \/ /\ a.registration # <<>>
            /\ ilike(a.registration[1].registration_number, strip(search_term))

\* Application._filter_by_application_or_registration_status
filter_by_application_or_registration_status(statuses, registration_statuses, a) ==
    LET on_status       == Truthy(statuses) /\ upper_all(statuses) # {}
        on_registration == Truthy(registration_statuses)
                              /\ upper_all(registration_statuses) # {}
    IN  IF ~on_status /\ ~on_registration THEN TRUE
        ELSE \/ on_status /\ a.status \in upper_all(statuses)
             \/ /\ on_registration
                /\ a.registration # <<>>
                /\ a.registration[1].status \in upper_all(registration_statuses)

\* Application._filter_by_assignee
filter_by_assignee(assignee, a) ==
    IF ~Truthy(assignee) THEN TRUE
    ELSE a.reviewer # <<>> /\ ilike(a.reviewer[1].username, strip(assignee))

\* application_json[...].astext == value, and application_json.contains of
\* one path with one value: the document has the path with that value
json_has(a, path, value) ==
    path \in DOMAIN a.application_json /\ a.application_json[path] = value

\* the requirements _get_host_requirement_condition has a condition for
HostRequirements ==
    {"NO_REQ", "BL", "PR", "PROHIBITED",
     "PR_EXEMPT_STRATA_HOTEL", "PR_EXEMPT_FARM_LAND", "PR_EXEMPT_FRACTIONAL_OWNERSHIP"}

\* Application._get_host_requirement_condition, for a requirement it knows
host_requirement_condition(req, a) ==
    IF req = "NO_REQ"
    THEN \/ json_has(a, "registration.strRequirements.isStraaExempt", "true")
         \/ /\ json_has(a, "registration.strRequirements.isBusinessLicenceRequired", "false")
            /\ json_has(a, "registration.strRequirements.isPrincipalResidenceRequired", "false")
    ELSE IF req = "BL"
    THEN json_has(a, "registration.strRequirements.isBusinessLicenceRequired", "true")
    ELSE IF req = "PR"
    THEN json_has(a, "registration.strRequirements.isPrincipalResidenceRequired", "true")
    ELSE IF req = "PROHIBITED"
    THEN json_has(a, "registration.strRequirements.isStrProhibited", "true")
    ELSE json_has(a, "registration.unitDetails.prExemptReason",
                  IF req = "PR_EXEMPT_STRATA_HOTEL" THEN "STRATA_HOTEL"
                  ELSE IF req = "PR_EXEMPT_FARM_LAND" THEN "FARM_LAND"
                  ELSE "FRACTIONAL_OWNERSHIP")

PlatformRequirements == {"PLATFORM_MAJOR", "PLATFORM_MEDIUM", "PLATFORM_MINOR"}

\* Application._get_platform_requirement_condition, for a requirement it knows
platform_requirement_condition(req, a) ==
    json_has(a, "registration.platformDetails.listingSize",
             IF req = "PLATFORM_MAJOR" THEN "THOUSAND_AND_ABOVE"
             ELSE IF req = "PLATFORM_MEDIUM" THEN "BETWEEN_250_AND_999"
             ELSE "LESS_THAN_250")

StrataRequirements == {"STRATA_NO_PR", "STRATA_PR"}

\* Application._get_strata_requirement_condition, for a requirement it knows
strata_requirement_condition(req, a) ==
    IF req = "STRATA_NO_PR"
    THEN json_has(a, "registration.strataHotelDetails.category", "MULTI_UNIT_NON_PR")
    ELSE \/ json_has(a, "registration.strataHotelDetails.category", "FULL_SERVICE")
         \/ json_has(a, "registration.strataHotelDetails.category", "POST_DECEMBER_2023")

\* Application._filter_by_application_requirement: the conditions of each
\* kind are joined by AND, the kinds that have conditions by OR; a
\* requirement no kind knows adds nothing
filter_by_application_requirement(requirement, a) ==
    IF ~Truthy(requirement) THEN TRUE
    ELSE LET reqs     == Range(requirement)
             host     == reqs \cap HostRequirements
             platform == (reqs \ HostRequirements) \cap PlatformRequirements
             strata   == (reqs \ (HostRequirements \cup PlatformRequirements))
                            \cap StrataRequirements
         IN  IF host = {} /\ platform = {} /\ strata = {} THEN TRUE
             ELSE \/ host # {} /\ \A r \in host : host_requirement_condition(r, a)
                  \/ platform # {}
                       /\ \A r \in platform : platform_requirement_condition(r, a)
                  \/ strata # {} /\ \A r \in strata : strata_requirement_condition(r, a)

\* find_by_account with the account filter under "if is_examiner" instead of
\* "if not is_examiner"
find_by_account_filter_examiner_only(a, account_id, filter_criteria, is_examiner) ==
    /\ ~is_examiner \/ a.payment_account = account_id
    /\ filter_by_registration_types(filter_criteria.registration_types, a)
    /\ filter_by_application_registration_number(filter_criteria.record_number, a)
    /\ filter_by_application_or_registration_status(
           filter_criteria.statuses, filter_criteria.registration_statuses, a)
    /\ filter_by_assignee(filter_criteria.assignee, a)
    /\ filter_by_application_requirement(filter_criteria.requirements, a)
    /\ filter_criteria.include_draft \/ a.status # DRAFT

\* Application.find_by_account, lines 184-200: row a passes every filter the
\* query has collected (each query.filter adds a condition joined by AND)
find_by_account_filter(a, account_id, filter_criteria, is_examiner) ==
    /\ is_examiner \/ a.payment_account = account_id
    /\ filter_by_registration_types(filter_criteria.registration_types, a)
    /\ filter_by_application_registration_number(filter_criteria.record_number, a)
    /\ filter_by_application_or_registration_status(
           filter_criteria.statuses, filter_criteria.registration_statuses, a)
    /\ filter_by_assignee(filter_criteria.assignee, a)
    /\ filter_by_application_requirement(filter_criteria.requirements, a)
    /\ filter_criteria.include_draft \/ a.status # DRAFT

\* Application.application_tsv.match(search_text): the text is a word of the
\* document's text index
tsv_match(a, search_text) == lower(search_text) \in a.application_tsv

\* Application.search_applications, lines 395-416
search_applications_filter(a, filter_criteria) ==
    /\ ~Truthy(filter_criteria.search_text)
         \/ tsv_match(a, filter_criteria.search_text)
         \/ ilike(a.application_number, filter_criteria.search_text)
    /\ filter_by_application_or_registration_status(
           filter_criteria.statuses, filter_criteria.registration_statuses, a)
    /\ filter_by_registration_types(filter_criteria.registration_types, a)
    /\ filter_by_application_registration_number(filter_criteria.record_number, a)
    /\ filter_by_assignee(filter_criteria.assignee, a)
    /\ filter_by_application_requirement(filter_criteria.requirements, a)
    /\ a.status # DRAFT

\* getattr(Application, filter_criteria.sort_by, Application.id): the value
\* of the sort column in row a
sort_column(a, sort_by) == IF sort_by = "invoice_id" THEN a.invoice_id ELSE a.id

\* sort_order and sort_order.lower() == "asc"
ascending(sort_order) == Truthy(sort_order) /\ lower(sort_order) = <<"a","s","c">>

\* query.order_by(...): the orders in which the rows can come back; rows
\* with equal sort values come in any order
order_by(rows, sort_by, sort_order) ==
    {q \in [1..Cardinality(rows) -> rows] :
        /\ Range(q) = rows
        /\ \A i, j \in DOMAIN q :
              i < j => IF ascending(sort_order)
                       THEN sort_column(q[i], sort_by) <= sort_column(q[j], sort_by)
                       ELSE sort_column(q[i], sort_by) >= sort_column(q[j], sort_by)}

\* query.paginate(per_page=limit, page=page): the items of the page
paginate(ordered, limit, page) ==
    SubSeq(ordered, (page - 1) * limit + 1,
           IF page * limit < Len(ordered) THEN page * limit ELSE Len(ordered))

\* paginate aborts with 404 for a page after the first that has no items
paginate_aborts(ordered, limit, page) ==
    page # 1 /\ paginate(ordered, limit, page) = <<>>

\* max_attempts (line 162)
max_attempts == 10

\* generate(alphabet="0123456789", size=14): every text of 14 digits can come
\* out; the numbers of the model are 10000000000001, 10000000000002, ...
application_number_size == 14

ApplicationNumber(n) ==
    [k \in 1..application_number_size |->
        IF k = 1 THEN "1" ELSE IF k = application_number_size THEN DigitChar[n + 1] ELSE "0"]

\* the test of line 165 finding no row whatever the number
number_in_use_never(table, number) == FALSE

\* cls.query.filter_by(application_number=new_number).first() is a row: some
\* application has this number
number_in_use(table, number) == \E a \in table : a.application_number = number

(***************************************************************************)
(* ApplicationSerializer (strr_api/models/application.py): to_dict.        *)
(*                                                                         *)
(* A dict is a function from its keys; the empty dict is <<>>. The values  *)
(* of the status column are the names of Application.Status. The labels    *)
(* and the action names are strings, the dash of a label written "-". The  *)
(* submitter, reviewer, registration and noc of an application are         *)
(* sequences of at most one record.                                        *)
(***************************************************************************)
\* Application.Status (lines 68-86): the value of a member is its name
Status ==
    [DRAFT |-> DRAFT,
     PAYMENT_DUE |-> <<"P","A","Y","M","E","N","T","_","D","U","E">>,
     PAID |-> PAID,
     AUTO_APPROVED |-> <<"A","U","T","O","_","A","P","P","R","O","V","E","D">>,
     PROVISIONALLY_APPROVED |-> <<"P","R","O","V","I","S","I","O","N","A","L","L","Y","_","A","P","P","R","O","V","E","D">>,
     FULL_REVIEW_APPROVED |-> <<"F","U","L","L","_","R","E","V","I","E","W","_","A","P","P","R","O","V","E","D">>,
     PROVISIONAL_REVIEW |-> <<"P","R","O","V","I","S","I","O","N","A","L","_","R","E","V","I","E","W">>,
     ADDITIONAL_INFO_REQUESTED |-> <<"A","D","D","I","T","I","O","N","A","L","_","I","N","F","O","_","R","E","Q","U","E","S","T","E","D">>,
     FULL_REVIEW |-> FULL_REVIEW,
     DECLINED |-> <<"D","E","C","L","I","N","E","D">>,
     PROVISIONALLY_DECLINED |-> <<"P","R","O","V","I","S","I","O","N","A","L","L","Y","_","D","E","C","L","I","N","E","D">>,
     PROVISIONAL |-> <<"P","R","O","V","I","S","I","O","N","A","L">>,
     NOC_PENDING |-> <<"N","O","C","_","P","E","N","D","I","N","G">>,
     NOC_EXPIRED |-> <<"N","O","C","_","E","X","P","I","R","E","D">>,
     PROVISIONAL_REVIEW_NOC_PENDING |-> <<"P","R","O","V","I","S","I","O","N","A","L","_","R","E","V","I","E","W","_","N","O","C","_","P","E","N","D","I","N","G">>,
     PROVISIONAL_REVIEW_NOC_EXPIRED |-> <<"P","R","O","V","I","S","I","O","N","A","L","_","R","E","V","I","E","W","_","N","O","C","_","E","X","P","I","R","E","D">>]

\* a dict literal: the function of its <<key, value>> items
Dict(items) == [k \in {i[1] : i \in items} |-> (CHOOSE i \in items : i[1] = k)[2]]

\* d | e: the items of e, and those of d under the other keys
Update(d, e) == [k \in DOMAIN d \cup DOMAIN e |-> IF k \in DOMAIN e THEN e[k] ELSE d[k]]

HOST_STATUSES ==
    Dict({<<Status.DRAFT, "Draft">>,
          <<Status.PAYMENT_DUE, "Payment Due">>,
          <<Status.PAID, "Pending Approval">>,
          <<Status.AUTO_APPROVED, "Approved">>,
          <<Status.PROVISIONALLY_APPROVED, "Approved">>,
          <<Status.FULL_REVIEW_APPROVED, "Approved">>,
          <<Status.PROVISIONAL_REVIEW, "Approved - Provisional">>,
          <<Status.FULL_REVIEW, "Pending Approval">>,
          <<Status.PROVISIONALLY_DECLINED, "Declined">>,
          <<Status.DECLINED, "Declined">>,
          <<Status.NOC_PENDING, "Notice of Consideration">>,
          <<Status.NOC_EXPIRED, "Pending Review">>,
          <<Status.PROVISIONAL_REVIEW_NOC_PENDING, "Notice of Consideration">>,
          <<Status.PROVISIONAL_REVIEW_NOC_EXPIRED, "Pending Review">>})

HOST_ACTIONS == Dict({<<Status.PAYMENT_DUE, <<"SUBMIT_PAYMENT">> >>})

EXAMINER_STATUSES ==
    Dict({<<Status.DRAFT, "Draft">>,
          <<Status.PAYMENT_DUE, "Payment Due">>,
          <<Status.PAID, "Paid">>,
          <<Status.AUTO_APPROVED, "Approved - Automatic">>,
          <<Status.PROVISIONALLY_APPROVED, "Approved - Provisional">>,
          <<Status.FULL_REVIEW_APPROVED, "Approved - Examined">>,
          <<Status.PROVISIONAL_REVIEW, "Provisional Examination">>,
          <<Status.FULL_REVIEW, "Full Examination">>,
          <<Status.PROVISIONALLY_DECLINED, "Declined - Provisional">>,
          <<Status.DECLINED, "Declined">>,
          <<Status.NOC_PENDING, "NOC - Pending">>,
          <<Status.NOC_EXPIRED, "NOC - Expired">>,
          <<Status.PROVISIONAL_REVIEW_NOC_PENDING, "NOC - Pending">>,
          <<Status.PROVISIONAL_REVIEW_NOC_EXPIRED, "NOC - Expired">>})

EXAMINER_ACTIONS ==
    Dict({<<Status.FULL_REVIEW_APPROVED, <<>> >>,
          <<Status.FULL_REVIEW, <<"APPROVE", "SEND_NOC">> >>,
          <<Status.NOC_PENDING, <<"APPROVE", "REJECT">> >>,
          <<Status.NOC_EXPIRED, <<"APPROVE", "REJECT">> >>,
          <<Status.PROVISIONAL_REVIEW, <<"PROVISIONAL_APPROVE", "SEND_NOC">> >>,
          <<Status.PROVISIONAL_REVIEW_NOC_PENDING, <<"PROVISIONAL_APPROVE", "REJECT">> >>,
          <<Status.PROVISIONAL_REVIEW_NOC_EXPIRED, <<"PROVISIONAL_APPROVE", "REJECT">> >>,
          <<Status.PROVISIONALLY_DECLINED, <<>> >>,
          <<Status.DECLINED, <<"SET_ASIDE">> >>})

\* a date: a day at midnight UTC
Date(year, month, day) == [year |-> year, month |-> month, day |-> day]

\* datetime.isoformat() of a date at midnight UTC
isoformat(date) ==
    strftime_ymd(date) \o <<"T","0","0",":","0","0",":","0","0","+","0","0",":","0","0">>

\* to_dict, lines 485-487: the header the keys are written to, in a deep
\* copy of the stored document
header_of(application_json) ==
    IF "header" \in DOMAIN application_json /\ DOMAIN application_json["header"] # {}
    THEN application_json["header"]
    ELSE <<>>

\* to_dict, lines 495-499
host_status(application) ==
    IF application.is_set_aside
    THEN "Pending Review"
    ELSE Get(HOST_STATUSES, application.status, "")

\* lines 505-514 with the test of line 505 in force after line 514
examiner_actions_set_aside_last(application) ==
    IF application.is_set_aside
    THEN <<"APPROVE", "REJECT">>
    ELSE IF /\ application.status = Status.FULL_REVIEW_APPROVED
            /\ application.registration[1].certificates # <<>>
         THEN <<>>
         ELSE Get(EXAMINER_ACTIONS, application.status, <<>>)

\* to_dict, lines 505-514: the examinerActions in the header returned
examiner_actions(application) ==
    IF /\ application.status = Status.FULL_REVIEW_APPROVED
       /\ application.registration[1].certificates # <<>>
    THEN <<>>
    ELSE IF application.is_set_aside
         THEN <<"APPROVE", "REJECT">>
         ELSE Get(EXAMINER_ACTIONS, application.status, <<>>)

\* first and last name as lines 523-528 and 534-539 join them
display_name(user) ==
    (IF Truthy(user.firstname) THEN user.firstname ELSE <<>>)
        \o (IF Truthy(user.lastname) THEN <<" ">> \o user.lastname ELSE <<>>)

\* lines 519-528, 530-539: the submitter or reviewer written to the header
header_user(user) ==
    IF user = <<>>
    THEN <<>>
    ELSE [username |-> user[1].username, displayName |-> display_name(user[1])]

\* lines 542-564: the keys written for an application with a registration
header_registration(application) ==
    IF application.registration = <<>>
    THEN <<>>
    ELSE LET registration == application.registration[1]
         IN  Update([registrationId |-> registration.id,
                     registrationStartDate |-> isoformat(registration.start_date),
                     registrationEndDate |-> isoformat(registration.expiry_date),
                     registrationStatus |-> registration.status,
                     registrationNumber |-> registration.registration_number,
                     isCertificateIssued |-> registration.certificates # <<>>],
                    IF registration.rental_property # <<>>
                       /\ registration.rental_property[1].address # <<>>
                    THEN LET address == registration.rental_property[1].address[1]
                         IN  [registrationAddress |->
                                 [unitNumber |-> address.unit_number,
                                  streetNumber |-> address.street_number,
                                  streetName |-> address.street_address,
                                  addressLineTwo |-> address.street_address_additional,
                                  city |-> address.city,
                                  province |-> address.province,
                                  country |-> address.country,
                                  postalCode |-> address.postal_code,
                                  locationDescription |-> address.location_description]]
                    ELSE <<>>)

\* lines 565-567: the keys written for an application with a notice of
\* consideration
header_noc(application) ==
    IF application.noc = <<>>
    THEN <<>>
    ELSE [nocStartDate |-> strftime_ymd(application.noc[1].start_date),
          nocEndDate |-> strftime_ymd(application.noc[1].end_date)]

\* to_dict, lines 488-567: the keys written to the header
header_written(application) ==
    Update(Update([applicationNumber |-> application.application_number,
                   name |-> application.type,
                   paymentToken |-> application.invoice_id,
                   paymentStatus |-> application.payment_status_code,
                   paymentAccount |-> application.payment_account,
                   status |-> application.status,
                   isSetAside |-> application.is_set_aside,
                   hostStatus |-> host_status(application),
                   examinerStatus |-> Get(EXAMINER_STATUSES, application.status, ""),
                   hostActions |-> Get(HOST_ACTIONS, application.status, <<>>),
                   examinerActions |-> examiner_actions(application),
                   applicationDateTime |-> isoformat(application.application_date),
                   decisionDate |-> IF application.decision_date # <<>>
                                    THEN isoformat(application.decision_date[1])
                                    ELSE None,
                   submitter |-> header_user(application.submitter),
                   reviewer |-> header_user(application.reviewer),
                   isCertificateIssued |-> FALSE],
                  header_registration(application)),
           header_noc(application))

\* ApplicationSerializer.to_dict: the dict returned
to_dict(application) ==
    Update(application.application_json,
           [header |-> Update(header_of(application.application_json),
                              header_written(application))])

\* to_dict ends in an exception: line 512 reads the certificates of a
\* registration the application does not have
to_dict_raises(application) ==
    /\ application.status = Status.FULL_REVIEW_APPROVED
    /\ application.registration = <<>>

\* the application after to_dict: it is only read, the header is written to
\* the deep copy of line 485
to_dict_application(application) == application


(***************************************************************************)
(* Inputs: requests and stored registrations.                              *)
(***************************************************************************)
\* every text of at most n characters over an alphabet
Strings(alphabet, n) == UNION {[1..k -> alphabet] : k \in 0..n}

\* the registration number under which the stored registration is filed,
\* and a number that no registration has
PermitId == "H123456789"
UnknownId == "H000000000"

\* a request with a complete address; un = None stands for no unitNumber key
Request(id, sn, pc, un) ==
    [identifier |-> id,
     address    |-> IF un = None THEN [streetNumber |-> sn, postalCode |-> pc]
                    ELSE [streetNumber |-> sn, postalCode |-> pc, unitNumber |-> un]]

HostRegistration(status, sn, pc, un, expiry) ==
    [registration_type |-> "HOST", status |-> status, expiry_date |-> expiry,
     rental_property   |-> [address |-> [street_number |-> sn, postal_code |-> pc,
                                          unit_number   |-> un]]]

StrataAddress(line, pc) == [street_address |-> line, postal_code |-> pc]

StrataRegistration(status, location, building_addresses, expiry) ==
    [registration_type |-> "STRATA_HOTEL", status |-> status, expiry_date |-> expiry,
     strata_hotel_registration |->
        [strata_hotel |-> [location  |-> location,
                           buildings |-> [i \in DOMAIN building_addresses |->
                                            [address |-> building_addresses[i]]]]]]

PlatformRegistration(status, expiry) ==
    [registration_type |-> "PLATFORM", status |-> status, expiry_date |-> expiry]

Statuses == {"ACTIVE", "CANCELLED"}

\* 2026-01-01 07:59 UTC is 2025-12-31 in Vancouver; 2027-06-15 19:00 UTC is
\* the same day there
ExpiryDates ==
    {[year |-> 2026, month |-> 1, day |-> 1, hour |-> 7],
     [year |-> 2027, month |-> 6, day |-> 15, hour |-> 19]}

Location == StrataAddress(<<"U","n","i","t"," ","1","-","1","0","0"," ","B","a","y">>,
                          <<"V","8","V"," ","1","A","1">>)

BuildingAddresses ==
    {StrataAddress(<<"2","0","0"," ","O","a","k">>, <<"V","8","V"," ","2","B","2">>),
     StrataAddress(<<"5","-","3","0","0"," ","E","l","m">>, <<"V","9","A"," ","3","C","3">>)}

BuildingLists == UNION {[1..k -> BuildingAddresses] : k \in 0..MaxBuildings}

\* the stored registrations of Spec
Registrations ==
    {HostRegistration(st, sn, <<"V","8","V"," ","1","V","2">>, un, d) :
        st \in Statuses, sn \in {None, <<"1","2","3">>},
        un \in {None, <<"U","n","i","t"," ","0","4">>}, d \in ExpiryDates}
    \cup {StrataRegistration(st, Location, bs, d) :
        st \in Statuses, bs \in BuildingLists, d \in ExpiryDates}
    \cup {PlatformRegistration(st, d) : st \in Statuses, d \in ExpiryDates}

\* the addresses claimed in Spec: street number, postal code, unit number
ClaimedAddresses ==
    {<< <<"1","2","3"," ","A">>, <<"v","8","v","1","v","1">>, <<"S","u","i","t","e"," ","4">> >>,
     << <<"1","2","3">>, <<"V","8","V"," ","1","V","2">>, None >>,
     << <<"9","9","9">>, <<"X","0","X","0","X","0">>, <<"S","u","i","t","e"," ","5">> >>,
     << <<"3","0","0">>, <<"V","9","A","3","C","3">>, None >>,
     << <<"1","0","0">>, <<"v","8","v"," ","1","a","1">>, <<>> >>}

\* requests that pass the schema
ValidRequests ==
    {Request(id, a[1], a[2], a[3]) : id \in {PermitId, UnknownId}, a \in ClaimedAddresses}

\* requests that fail the schema
InvalidRequests ==
    {[address |-> [streetNumber |-> <<"1","2","3">>, postalCode |-> <<"V","8","V">>]],
     [identifier |-> PermitId],
     [identifier |-> PermitId, address |-> [postalCode |-> <<"V","8","V">>]],
     [identifier |-> PermitId, address |-> [streetNumber |-> <<"1","2","3">>]]}

Requests == ValidRequests \cup InvalidRequests

(***************************************************************************)
(* State.                                                                  *)
(***************************************************************************)
VARIABLES
    registrations,   \* the registrations table: registration number -> registration
    audit,           \* the RealTimeValidation table: the audit records saved, in order
    request_json,    \* the request of the last call
    response,        \* the response returned by the last call
    status_code,     \* the status code returned by the last call
    checks,          \* the address checks performed by the last call, in order
    calls,           \* the collaborators called by the last call, in order
    n_calls,         \* number of validate_permit calls made
    pc,              \* "idle" before the first call, "returned" after a call
    unit_number,     \* NormSpec: the text given to _get_filtered_unit_number
    filtered,        \* NormSpec: the results of applying it, and again to its result
    applications,    \* the application table: a set of rows
    query,           \* the arguments of the last query of the application table
    paginated_result,\* the items of the page the last query returned
    attempts,        \* generate_unique_application_number: numbers generated so far
    new_number       \* generate_unique_application_number: the last number generated

\* the variables of the application model
application_vars == <<applications, query, paginated_result, attempts, new_number>>

vars == <<registrations, audit, request_json, response, status_code, checks, calls,
          n_calls, pc, unit_number, filtered, applications, query, paginated_result,
          attempts, new_number>>

\* no query of the application table and no number generation has started
NoQuery ==
    /\ query = <<>>
    /\ paginated_result = <<>>
    /\ attempts = 0
    /\ new_number = None

NoCall ==
    /\ audit = <<>>
    /\ response = <<>>
    /\ status_code = 0
    /\ checks = <<>>
    /\ calls = <<>>
    /\ n_calls = 0
    /\ pc = "idle"
    /\ applications = {}
    /\ NoQuery

(***************************************************************************)
(* Spec: calls of validate_permit against a table holding one registration *)
(***************************************************************************)
Init ==
    /\ registrations \in {[id \in {PermitId} |-> r] : r \in Registrations}
    /\ request_json = <<>>
    /\ NoCall
    /\ unit_number = <<>>
    /\ filtered = <<>>

ValidatePermit(req) ==
    /\ n_calls < MaxCalls
    /\ \E r \in {validate_permit(req, registrations)} :
           /\ request_json' = req
           /\ response' = r.response
           /\ status_code' = r.status_code
           /\ checks' = r.checks
           /\ calls' = r.calls
           /\ audit' = audit \o r.saved
    /\ n_calls' = n_calls + 1
    /\ pc' = "returned"
    /\ UNCHANGED <<registrations, unit_number, filtered>>
    /\ UNCHANGED application_vars

Next == \E req \in Requests : ValidatePermit(req)

Spec == Init /\ [][Next]_vars

(***************************************************************************)
(* MatchSpec: check_permit_details applied to a request and a registration *)
(* drawn from generated texts: every street number, postal code, unit      *)
(* number and street-address line up to a length over a small alphabet.    *)
(***************************************************************************)
Date1 == [year |-> 2026, month |-> 1, day |-> 1, hour |-> 7]

PostalA == <<"V","8","V"," ","1","V","2">>
PostalB == <<"V","9","A"," ","3","C","3">>

\* check_permit_details is given this request and this registration
MatchInput(req, reg) ==
    /\ request_json = req
    /\ registrations = [id \in {PermitId} |-> reg]

\* host: street numbers vary
StreetInputs ==
    \E sn  \in Strings({"1", "a", " ", "\t"}, MaxStreetLen),
       psn \in {None} \cup Strings({"1", "A", " "}, MaxStreetLen - 1) :
        MatchInput(Request(PermitId, sn, PostalA, None),
                   HostRegistration("ACTIVE", psn, PostalA, None, Date1))

\* host: postal codes vary
PostalInputs ==
    \E cpc \in Strings({"A", "b", " "}, MaxPostalLen),
       ppc \in Strings({"a", "B"}, MaxPostalLen + 1) :
        MatchInput(Request(PermitId, <<"1">>, cpc, None),
                   HostRegistration("ACTIVE", <<"1">>, ppc, None, Date1))

\* host: unit numbers vary (None: the request has no unitNumber, the permit
\* has no unit number)
UnitInputs ==
    \E un  \in {None} \cup Strings({"#", "0", "4", "s", "L", " "}, MaxUnitLen),
       pun \in {None} \cup Strings({"#", "0", "4", "s", "L", " "}, MaxUnitLen) :
        MatchInput(Request(PermitId, <<"1">>, PostalA, un),
                   HostRegistration("ACTIVE", <<"1">>, PostalA, pun, Date1))

\* strata: the street-address line of the primary location varies
LineInputs ==
    \E sn   \in {<<"1">>, <<"2">>, <<"1","2">>, <<"1"," ","2">>, <<"1","\t","2">>, <<" ","1">>},
       cpc  \in {PostalA, <<"v","8","v","1">>},
       line \in Strings({"1", "2", "-", " "}, MaxLineLen),
       ppc  \in {PostalA, PostalB} :
        MatchInput(Request(PermitId, sn, cpc, None),
                   StrataRegistration("ACTIVE", StrataAddress(line, ppc), <<>>, Date1))

\* every request of Spec that passes the schema with every registration of Spec
StoredInputs ==
    \E req \in {r \in ValidRequests : r.identifier = PermitId}, reg \in Registrations :
        MatchInput(req, reg)

\* the fields of the permit's address missing (None) or empty
AbsentHostInputs ==
    \E st  \in Statuses,
       psn \in {None, <<>>, <<"1">>},
       ppc \in {None, <<>>, PostalA},
       pun \in {None, <<>>, <<"4">>},
       un  \in {None, <<"4">>} :
        MatchInput(Request(PermitId, <<"1">>, PostalA, un),
                   HostRegistration(st, psn, ppc, pun, Date1))

AbsentStrataInputs ==
    \E st   \in Statuses,
       sn   \in {<<"1">>, <<"2">>},
       loc  \in {StrataAddress(line, ppc) : line \in {None, <<>>, <<"1">>},
                                            ppc  \in {None, <<>>, PostalA}},
       bs   \in UNION {[1..k -> {StrataAddress(None, PostalA), StrataAddress(<<"2">>, None),
                                 StrataAddress(<<"2">>, PostalA)}] : k \in 0..MaxBuildings} :
        MatchInput(Request(PermitId, sn, PostalA, None),
                   StrataRegistration(st, loc, bs, Date1))

MatchInit ==
    /\ \/ StreetInputs
       \/ PostalInputs
       \/ UnitInputs
       \/ LineInputs
       \/ StoredInputs
       \/ AbsentHostInputs
       \/ AbsentStrataInputs
    /\ NoCall
    /\ unit_number = <<>>
    /\ filtered = <<>>

CheckPermitDetails ==
    /\ pc = "idle"
    /\ ~check_permit_details_raises(request_json,
                                    registrations[request_json["identifier"]])
    /\ \E r \in {check_permit_details(request_json,
                                       registrations[request_json["identifier"]])} :
           /\ response' = r.response
           /\ status_code' = r.status_code
           /\ checks' = r.checks
    /\ \E a \in {check_permit_details_arguments(request_json,
                                                 registrations[request_json["identifier"]])} :
           /\ request_json' = a.request_json
           /\ registrations' = [registrations EXCEPT ![request_json["identifier"]] =
                                                        a.registration]
    /\ calls' = <<"check_permit_details">>
    /\ n_calls' = n_calls + 1
    /\ pc' = "returned"
    /\ UNCHANGED <<audit, unit_number, filtered>>
    /\ UNCHANGED application_vars

\* the call ends in an exception: nothing is returned
CheckPermitDetailsRaises ==
    /\ pc = "idle"
    /\ check_permit_details_raises(request_json,
                                   registrations[request_json["identifier"]])
    /\ calls' = <<"check_permit_details">>
    /\ n_calls' = n_calls + 1
    /\ pc' = "raised"
    /\ UNCHANGED <<registrations, audit, request_json, response, status_code, checks,
                   unit_number, filtered>>
    /\ UNCHANGED application_vars

MatchNext ==
    \/ CheckPermitDetails
    \/ CheckPermitDetailsRaises

MatchSpec == MatchInit /\ [][MatchNext]_vars

(***************************************************************************)
(* NormSpec: _get_filtered_unit_number applied to every text up to MaxLen  *)
(* over UnitAlphabet, and then to its own result.                          *)
(***************************************************************************)
UnitAlphabet == {"#", "-", " ", ".", "0", "4", "S", "l", "_"}

\* unit numbers as they are written on permits
UnitExamples ==
    {<<"S","u","i","t","e"," ","4","B">>,
     <<"#","0","0","7","A">>,
     <<"U","n","i","t"," ","1","2"," ","-"," ","C">>,
     <<"A","P","T"," ","3">>}

\* a unit number written with a keyword and a number sign
UnitWithMark == <<"U","n","i","t"," ","#","4">>

NormInit ==
    /\ unit_number \in Strings(UnitAlphabet, MaxLen) \cup UnitExamples \cup {UnitWithMark}
    /\ filtered = <<>>
    /\ registrations = <<>>
    /\ request_json = <<>>
    /\ NoCall

GetFilteredUnitNumber ==
    /\ Len(filtered) < MaxApplications
    /\ filtered' = Append(filtered,
            get_filtered_unit_number(IF filtered = <<>> THEN unit_number
                                     ELSE filtered[Len(filtered)]))
    /\ pc' = "returned"
    /\ UNCHANGED <<registrations, audit, request_json, response, status_code, checks,
                   calls, n_calls, unit_number>>
    /\ UNCHANGED application_vars

NormNext == GetFilteredUnitNumber

NormSpec == NormInit /\ [][NormNext]_vars

(***************************************************************************)
(* QuerySpec: one call of find_by_account or search_applications on an     *)
(* application table of at most MaxRows rows.                              *)
(***************************************************************************)
AccountA == "1001"
AccountB == "1002"

Examiner == <<[username |-> <<"e","x","a","m","1">>]>>

\* a row of the application table
Row(id, account, status, type, reviewer, registration, invoice, json, words) ==
    [id |-> id, application_number |-> ApplicationNumber(id), payment_account |-> account,
     status |-> status, registration_type |-> type, reviewer |-> reviewer,
     registration |-> registration, invoice_id |-> invoice, application_json |-> json,
     application_tsv |-> words]

\* the rows tables are made of: two accounts, each with a draft
Rows ==
    {Row(1, AccountA, PAID, <<"H","O","S","T">>, Examiner,
         <<[registration_number |-> <<"H","1">>, status |-> <<"A","C","T","I","V","E">>]>>, 7,
         [p \in {"registration.strRequirements.isBusinessLicenceRequired",
                 "registration.unitDetails.prExemptReason"} |->
            IF p = "registration.unitDetails.prExemptReason" THEN "FARM_LAND" ELSE "true"],
         {<<"f","a","r","m">>}),
     Row(2, AccountA, DRAFT, <<"H","O","S","T">>, <<>>, <<>>, 7,
         [p \in {"registration.strRequirements.isBusinessLicenceRequired",
                 "registration.strRequirements.isPrincipalResidenceRequired"} |-> "false"],
         {}),
     Row(3, AccountB, FULL_REVIEW, <<"P","L","A","T","F","O","R","M">>, Examiner, <<>>, 9,
         [p \in {"registration.platformDetails.listingSize"} |-> "THOUSAND_AND_ABOVE"],
         {<<"f","a","r","m">>}),
     Row(4, AccountB, DRAFT, <<"S","T","R","A","T","A","_","H","O","T","E","L">>, <<>>,
         <<[registration_number |-> <<"S","T","1">>, status |-> <<"A","C","T","I","V","E">>]>>, 8,
         [p \in {"registration.strataHotelDetails.category"} |-> "FULL_SERVICE"],
         {})}

Tables == {t \in SUBSET Rows : Cardinality(t) <= MaxRows}

\* the filter criteria (ApplicationSearch) of the model
FilterCriteria ==
    [registration_types    : {<<>>, << <<"h","o","s","t">> >>},
     record_number         : {<<>>, <<"1"," ">>},
     statuses              : {<<>>, << <<"d","r","a","f","t">>, <<>> >>},
     registration_statuses : {<<>>, << <<"a","c","t","i","v","e">> >>},
     assignee              : {<<>>, <<"E","X","A","M">>},
     requirements          : {<<>>, <<"BL">>, <<"PLATFORM_MAJOR", "STRATA_PR", "OTHER">>},
     search_text           : {<<>>, <<"F","a","r","m">>},
     include_draft         : BOOLEAN,
     sort_by               : {"invoice_id", "no_such_column"},
     sort_order            : {None, <<"A","S","C">>},
     limit                 : 1..2,
     page                  : 1..2]

QueryInit ==
    /\ applications \in Tables
    /\ NoQuery
    /\ registrations = <<>>
    /\ request_json = <<>>
    /\ audit = <<>> /\ response = <<>> /\ status_code = 0 /\ checks = <<>>
    /\ calls = <<>> /\ n_calls = 0 /\ pc = "idle"
    /\ unit_number = <<>>
    /\ filtered = <<>>

\* the query is run: the page comes back, or paginate aborts
Paginated(ordered, filter_criteria) ==
    /\ paginated_result' = paginate(ordered, filter_criteria.limit, filter_criteria.page)
    /\ pc' = IF paginate_aborts(ordered, filter_criteria.limit, filter_criteria.page)
             THEN "raised" ELSE "returned"

FindByAccount ==
    /\ pc = "idle"
    /\ \E account_id \in {AccountA, AccountB}, is_examiner \in BOOLEAN,
          filter_criteria \in {fc \in FilterCriteria : fc.search_text = <<>>} :
          /\ query' = [operation |-> "find_by_account", account_id |-> account_id,
                       is_examiner |-> is_examiner, filter_criteria |-> filter_criteria]
          /\ \E ordered \in order_by({a \in applications :
                                        find_by_account_filter(a, account_id,
                                                               filter_criteria, is_examiner)},
                                     filter_criteria.sort_by, filter_criteria.sort_order) :
                 Paginated(ordered, filter_criteria)
    /\ UNCHANGED <<registrations, audit, request_json, response, status_code, checks,
                   calls, n_calls, unit_number, filtered, applications, attempts, new_number>>

SearchApplications ==
    /\ pc = "idle"
    /\ \E filter_criteria \in FilterCriteria :
          /\ query' = [operation |-> "search_applications",
                       filter_criteria |-> filter_criteria]
          /\ \E ordered \in order_by({a \in applications :
                                        search_applications_filter(a, filter_criteria)},
                                     filter_criteria.sort_by, filter_criteria.sort_order) :
                 Paginated(ordered, filter_criteria)
    /\ UNCHANGED <<registrations, audit, request_json, response, status_code, checks,
                   calls, n_calls, unit_number, filtered, applications, attempts, new_number>>

QueryNext ==
    \/ FindByAccount
    \/ SearchApplications

QuerySpec == QueryInit /\ [][QueryNext]_vars

(***************************************************************************)
(* NumberSpec: one call of generate_unique_application_number; each step   *)
(* is one pass of its loop, the generator returning any of MaxNumbers      *)
(* numbers.                                                                *)
(***************************************************************************)
NumberInit == QueryInit

\* one pass of the loop (lines 163-166): a number is generated and returned
\* when no application has it
GenerateApplicationNumber ==
    /\ pc \in {"idle", "generating"}
    /\ attempts < max_attempts
    /\ \E n \in 1..MaxNumbers :
          /\ new_number' = ApplicationNumber(n)
          /\ pc' = IF number_in_use(applications, ApplicationNumber(n))
                   THEN "generating" ELSE "returned"
    /\ attempts' = attempts + 1
    /\ UNCHANGED <<registrations, audit, request_json, response, status_code, checks,
                   calls, n_calls, unit_number, filtered, applications, query,
                   paginated_result>>

\* the loop is over (line 167): ValueError
RaiseValueError ==
    /\ pc = "generating"
    /\ attempts = max_attempts
    /\ pc' = "raised"
    /\ UNCHANGED <<registrations, audit, request_json, response, status_code, checks,
                   calls, n_calls, unit_number, filtered>>
    /\ UNCHANGED application_vars

NumberNext ==
    \/ GenerateApplicationNumber
    \/ RaiseValueError

NumberSpec == NumberInit /\ [][NumberNext]_vars

(***************************************************************************)
(* SerializerSpec: one call of ApplicationSerializer.to_dict on a stored   *)
(* application.                                                            *)
(***************************************************************************)
\* the application_json of a stored application: without a header, with an
\* empty one, with one that holds keys to_dict writes and a key it does not
StoredDocument(i) ==
    CASE i = 1 -> [registration |-> "HOST"]
      [] i = 2 -> [registration |-> "HOST", header |-> <<>>]
      [] OTHER -> [registration |-> "HOST",
                   header |-> [paymentMethod |-> "CC", hostStatus |-> "Draft",
                               examinerActions |-> <<"SET_ASIDE">>]]

\* a registration with n certificates, with or without a rental property
SerializedRegistration(n, with_property) ==
    [id |-> 5,
     start_date |-> Date(2025, 1, 31),
     expiry_date |-> Date(2026, 1, 31),
     status |-> "ACTIVE",
     registration_number |-> <<"H","1">>,
     certificates |-> [k \in 1..n |-> [id |-> k]],
     rental_property |->
        IF with_property
        THEN <<[address |-> <<[unit_number |-> None,
                               street_number |-> <<"1","2">>,
                               street_address |-> <<"M","a","i","n">>,
                               street_address_additional |-> None,
                               city |-> <<"V","i","c">>,
                               province |-> <<"B","C">>,
                               country |-> <<"C","A">>,
                               postal_code |-> <<"V","8","V","1","A","1">>,
                               location_description |-> None]>>]>>
        ELSE <<>>]

\* the registrations an application has: none, or one of the above
SerializedRegistrations ==
    {<<>>} \cup {<<SerializedRegistration(n, p)>> : n \in 0..MaxCertificates, p \in BOOLEAN}

\* a stored application
SerializedApplication(status, is_set_aside, registration, document, reviewer, noc, decided) ==
    [id |-> 1,
     application_json |-> StoredDocument(document),
     application_number |-> ApplicationNumber(1),
     type |-> "registration",
     invoice_id |-> 7,
     payment_status_code |-> "COMPLETED",
     payment_account |-> AccountA,
     status |-> status,
     is_set_aside |-> is_set_aside,
     application_date |-> Date(2025, 1, 5),
     decision_date |-> IF decided THEN <<Date(2025, 1, 31)>> ELSE <<>>,
     submitter |-> <<[username |-> <<"h","o","s","t","1">>, firstname |-> <<"A","n">>,
                      lastname |-> <<"L","e","e">>]>>,
     reviewer |-> IF reviewer
                  THEN <<[username |-> <<"e","x","a","m","1">>, firstname |-> None,
                          lastname |-> <<"R","a","y">>]>>
                  ELSE <<>>,
     registration |-> registration,
     noc |-> IF noc
             THEN <<[start_date |-> Date(2025, 1, 10), end_date |-> Date(2025, 1, 18)]>>
             ELSE <<>>]

SerializerInit ==
    /\ \E status \in Range(Status) \cup {None}, is_set_aside \in BOOLEAN,
          registration \in SerializedRegistrations, document \in 1..3,
          reviewer \in BOOLEAN, noc \in BOOLEAN, decided \in BOOLEAN :
          applications = {SerializedApplication(status, is_set_aside, registration,
                                                document, reviewer, noc, decided)}
    /\ NoQuery
    /\ registrations = <<>>
    /\ request_json = <<>>
    /\ audit = <<>> /\ response = <<>> /\ status_code = 0 /\ checks = <<>>
    /\ calls = <<>> /\ n_calls = 0 /\ pc = "idle"
    /\ unit_number = <<>>
    /\ filtered = <<>>

\* to_dict returns the dict
ToDict ==
    /\ pc = "idle"
    /\ \E application \in applications :
          /\ ~to_dict_raises(application)
          /\ response' = to_dict(application)
          /\ applications' = {to_dict_application(application)}
          /\ query' = [operation |-> "to_dict", application |-> application]
    /\ pc' = "returned"
    /\ UNCHANGED <<registrations, audit, request_json, status_code, checks, calls, n_calls,
                   unit_number, filtered, paginated_result, attempts, new_number>>

\* to_dict ends in an exception: nothing is returned
ToDictRaises ==
    /\ pc = "idle"
    /\ \E application \in applications :
          /\ to_dict_raises(application)
          /\ query' = [operation |-> "to_dict", application |-> application]
    /\ pc' = "raised"
    /\ UNCHANGED <<registrations, audit, request_json, response, status_code, checks, calls,
                   n_calls, unit_number, filtered, applications, paginated_result, attempts,
                   new_number>>

SerializerNext ==
    \/ ToDict
    \/ ToDictRaises

SerializerSpec == SerializerInit /\ [][SerializerNext]_vars

(***************************************************************************)
(* Properties.                                                             *)
(***************************************************************************)
\* the stored registration (every table of the model holds one)
Stored == registrations[PermitId]

\* the request has the properties the schema requires
WellFormed(req) ==
    /\ {"identifier", "address"} \subseteq DOMAIN req
    /\ {"streetNumber", "postalCode"} \subseteq DOMAIN req["address"]

\* the codes of the errors of a response, in order
ErrorCodes(resp) ==
    IF "errors" \in DOMAIN resp
    THEN [i \in DOMAIN resp["errors"] |-> resp["errors"][i].code]
    ELSE <<>>

\* number of occurrences of x in the sequence q
Count(q, x) == Cardinality({i \in DOMAIN q : q[i] = x})

\* a date written YYYY-MM-DD
IsYMD(t) ==
    /\ Len(t) = 10
    /\ t[5] = "-" /\ t[8] = "-"
    /\ \A i \in {1, 2, 3, 4, 6, 7, 9, 10} : t[i] \in Digits

C2_Original ==
    pc = "returned" =>
        /\ status_code \in {OK, BAD_REQUEST, NOT_FOUND}
        /\ ~WellFormed(request_json) =>
              /\ status_code = BAD_REQUEST
              /\ response = [errors |-> validate(request_json).errors]
              /\ response["errors"] # <<>>
        /\ WellFormed(request_json) /\ request_json["identifier"] \notin DOMAIN registrations =>
              /\ status_code = NOT_FOUND
              /\ ErrorCodes(response) = <<"PERMIT_NOT_FOUND">>
        /\ WellFormed(request_json) /\ request_json["identifier"] \in DOMAIN registrations =>
              IF "errors" \in DOMAIN response
              THEN status_code = BAD_REQUEST
              ELSE /\ status_code = OK
                   /\ "status" \in DOMAIN response
                   /\ "validUntil" \in DOMAIN response
                   /\ IsYMD(response["validUntil"])

\* C2 (amended): as stated, except that a found registration with no matcher
\* errors gives 200 with status, and with a validUntil written YYYY-MM-DD
\* exactly when the registration is ACTIVE.
C2_StatusCodes ==
    pc = "returned" =>
        /\ status_code \in {OK, BAD_REQUEST, NOT_FOUND}
        /\ ~WellFormed(request_json) =>
              /\ status_code = BAD_REQUEST
              /\ response = [errors |-> validate(request_json).errors]
              /\ response["errors"] # <<>>
        /\ WellFormed(request_json) /\ request_json["identifier"] \notin DOMAIN registrations =>
              /\ status_code = NOT_FOUND
              /\ ErrorCodes(response) = <<"PERMIT_NOT_FOUND">>
        /\ WellFormed(request_json) /\ request_json["identifier"] \in DOMAIN registrations =>
              IF "errors" \in DOMAIN response
              THEN status_code = BAD_REQUEST
              ELSE /\ status_code = OK
                   /\ "status" \in DOMAIN response
                   /\ ("validUntil" \in DOMAIN response) <=> (Stored.status = "ACTIVE")
                   /\ "validUntil" \in DOMAIN response => IsYMD(response["validUntil"])

\* a registration that is not ACTIVE was found: 200 with a status and no validUntil
C2_Witness ==
    /\ pc = "returned"
    /\ WellFormed(request_json) /\ request_json["identifier"] \in DOMAIN registrations
    /\ Stored.status # "ACTIVE"
    /\ status_code = OK
    /\ "status" \in DOMAIN response

\* C3 (as stated): for a registration that is not ACTIVE no address check
\* runs and the response contains only the status field.
C3_Original ==
    pc = "returned" /\ Stored.status # "ACTIVE" =>
        /\ checks = <<>>
        /\ response = [status |-> Stored.status]

\* C3 (amended): for a registration that is not ACTIVE no address check
\* runs and the response is the request's own fields plus the status field
\* (the registration's status name): no errors and no validUntil, whatever
\* the address in the request.
C3_InactiveShortCircuit ==
    pc = "returned" /\ Stored.status # "ACTIVE" =>
        /\ checks = <<>>
        /\ status_code = OK
        /\ DOMAIN response = DOMAIN request_json \cup {"status"}
        /\ response["status"] = Stored.status
        /\ \A k \in DOMAIN request_json : response[k] = request_json[k]

\* a cancelled host registration whose three address checks would all fail
C3_Witness ==
    /\ pc = "returned"
    /\ Stored.status = "CANCELLED"
    /\ Stored.registration_type = "HOST"
    /\ request_json["address"]["streetNumber"] = <<"9","9","9">>
    /\ Stored.rental_property.address.street_number = <<"1","2","3">>
    /\ response["status"] = "CANCELLED"

\* an ACTIVE host registration was checked
HostChecked ==
    /\ pc = "returned"
    /\ Stored.status = "ACTIVE"
    /\ Stored.registration_type = "HOST"

ClaimAddress == request_json["address"]
PermitAddress == Stored.rental_property.address

\* C4: in the host variant the three checks are always evaluated and the
\* error list has exactly one entry for each failing check and none for a
\* passing one (only the unit numbers differ: exactly UNIT_NUMBER_MISMATCH;
\* all three fail: all three codes).
C4_HostErrorsCollected ==
    HostChecked =>
        /\ checks = <<"streetNumber", "postalCode", "unitNumber">>
        /\ Count(ErrorCodes(response), "STREET_NUMBER_MISMATCH")
             = (IF street_number_mismatch(ClaimAddress, PermitAddress) THEN 1 ELSE 0)
        /\ Count(ErrorCodes(response), "POSTAL_CODE_MISMATCH")
             = (IF postal_code_mismatch(ClaimAddress, PermitAddress) THEN 1 ELSE 0)
        /\ Count(ErrorCodes(response), "UNIT_NUMBER_MISMATCH")
             = (IF unit_number_mismatch(ClaimAddress, PermitAddress) THEN 1 ELSE 0)
        /\ \A i \in DOMAIN ErrorCodes(response) :
              ErrorCodes(response)[i] \in {"STREET_NUMBER_MISMATCH", "POSTAL_CODE_MISMATCH",
                                           "UNIT_NUMBER_MISMATCH"}
        /\ ("errors" \in DOMAIN response) => response["errors"] # <<>>

\* all three checks fail and the three codes are returned together
C4_Witness ==
    /\ HostChecked
    /\ Len(ErrorCodes(response)) = 3
    /\ {ErrorCodes(response)[i] : i \in 1..3}
         = {"STREET_NUMBER_MISMATCH", "POSTAL_CODE_MISMATCH", "UNIT_NUMBER_MISMATCH"}

\* a text on file: neither missing nor empty
OnFile(x) == x # None /\ x # <<>>

\* the text before the first separator character of t (t when it has none)
FirstToken(t, separators) ==
    IF \E i \in 1..Len(t) : t[i] \in separators
    THEN SubSeq(t, 1, (CHOOSE i \in 1..Len(t) :
                          /\ t[i] \in separators
                          /\ \A j \in 1..(i - 1) : t[j] \notin separators) - 1)
    ELSE t

\* the claim's street number, lower-cased and trimmed
ClaimStreetNumber == strip(lower(ClaimAddress["streetNumber"]))

\* the street-number rule of the host variant, tokens delimited by separators
StreetNumberRule(separators) ==
    ("STREET_NUMBER_MISMATCH" \in Range(ErrorCodes(response)))
        <=> /\ OnFile(PermitAddress.street_number)
            /\ strip(lower(PermitAddress.street_number)) # ClaimStreetNumber
            /\ strip(lower(PermitAddress.street_number))
                 # FirstToken(ClaimStreetNumber, separators)

\* C5 (as stated): STREET_NUMBER_MISMATCH is emitted if and only if the
\* permit has a street number on file that equals neither the claim's
\* lower-cased trimmed street number nor its first whitespace-delimited token.
C5_Original == HostChecked => StreetNumberRule(Whitespace)

\* C5 (amended): STREET_NUMBER_MISMATCH is emitted if and only if the permit
\* has a street number on file that (lower-cased, trimmed) equals neither the
\* claim's lower-cased trimmed street number nor the part of it before its
\* first space character; with no street number on file there is no error.
C5_StreetNumber == HostChecked => StreetNumberRule({" "})

\* the claim "1 a" is accepted for the permit "1" by its first token
C5_Witness ==
    /\ HostChecked
    /\ ClaimAddress["streetNumber"] = <<"1", " ", "a">>
    /\ PermitAddress.street_number = <<"1">>
    /\ "STREET_NUMBER_MISMATCH" \notin Range(ErrorCodes(response))

\* a postal code with case folded and spaces removed
Fold(x) == SelectSeq(lower(x), LAMBDA ch : ch # " ")

SamePrefix4(c, p) ==
    /\ Len(c) >= 4 /\ Len(p) >= 4
    /\ \A i \in 1..4 : c[i] = p[i]

\* C6: the host postal-code check passes if and only if the two codes, spaces
\* removed and case folded, are equal or the claim's code has at least 4
\* characters whose first 4 equal the first 4 of the permit's code; otherwise
\* POSTAL_CODE_MISMATCH is emitted; a claim code shorter than 4 characters
\* passes only on exact equality.
C6_PostalCode ==
    HostChecked =>
        LET c == Fold(ClaimAddress["postalCode"])
            p == Fold(PermitAddress.postal_code)
            passes == "POSTAL_CODE_MISMATCH" \notin Range(ErrorCodes(response))
        IN  /\ passes <=> (c = p \/ SamePrefix4(c, p))
            /\ Len(c) < 4 => (passes <=> c = p)

\* two different codes pass by their first 4 characters
C6_Witness ==
    /\ HostChecked
    /\ Fold(ClaimAddress["postalCode"]) # Fold(PermitAddress.postal_code)
    /\ Len(Fold(ClaimAddress["postalCode"])) = 4
    /\ "POSTAL_CODE_MISMATCH" \notin Range(ErrorCodes(response))

\* the claim's unit number (None when the request has none)
ClaimUnitNumber ==
    IF "unitNumber" \in DOMAIN ClaimAddress THEN ClaimAddress["unitNumber"] ELSE None

StrataChecked ==
    /\ pc = "returned"
    /\ Stored.status = "ACTIVE"
    /\ Stored.registration_type = "STRATA_HOTEL"

StrataHotel == Stored.strata_hotel_registration.strata_hotel

\* the addresses of the strata hotel: 0 the primary location, i the i-th building
StrataAddressAt(i) ==
    IF i = 0 THEN StrataHotel.location ELSE StrataHotel.buildings[i].address

\* the text after the first hyphen of a line (the line when it has none)
AfterFirstHyphen(line) ==
    IF \E i \in 1..Len(line) : line[i] = "-"
    THEN SubSeq(line, 1 + (CHOOSE i \in 1..Len(line) :
                              /\ line[i] = "-"
                              /\ \A j \in 1..(i - 1) : line[j] # "-"), Len(line))
    ELSE line

\* the matching rule of the strata variant for one address, tokens delimited
\* by separators
StrataRule(address, separators) ==
    LET claimed == strip(ClaimAddress["streetNumber"])
        number  == FirstToken(strip(AfterFirstHyphen(address.street_address)), separators)
    IN  /\ number = claimed \/ number = FirstToken(claimed, separators)
        /\ Take(Fold(ClaimAddress["postalCode"]), 4) = Take(Fold(address.postal_code), 4)

StrataOutcome(separators) ==
    IF \E i \in 0..Len(StrataHotel.buildings) : StrataRule(StrataAddressAt(i), separators)
    THEN "errors" \notin DOMAIN response
    ELSE ErrorCodes(response) = <<"ADDRESS_MISMATCH">>

\* C8 (as stated): the strata request matches if and only if some address
\* among the primary location and the buildings has the claimed street number
\* (text after the first hyphen of its line, first whitespace token; equal to
\* the claim's number or the claim's first token) and the same first 4
\* postal-code characters; with no match the errors are exactly one
\* ADDRESS_MISMATCH.
C8_Original == StrataChecked => StrataOutcome(Whitespace)

\* C8 (amended): as stated, with the tokens being the text before the first
\* space character (of the address line after its first hyphen, and of the
\* claim's trimmed street number).
C8_StrataMatch == StrataChecked => StrataOutcome({" "})

\* the claim matches the building "5-300 Elm" and not the primary location
C8_Witness ==
    /\ StrataChecked
    /\ ClaimAddress["streetNumber"] = <<"3","0","0">>
    /\ Len(StrataHotel.buildings) >= 1
    /\ StrataHotel.buildings[1].address.street_address = <<"5","-","3","0","0"," ","E","l","m">>
    /\ "errors" \notin DOMAIN response
    /\ "validUntil" \in DOMAIN response

\* C9: strata addresses are examined in the order primary location, then the
\* buildings in sequence order; examination stops at the first matching
\* address: no building after the first match is examined, none at all when
\* the primary location matches.
C9_StrataOrder ==
    StrataChecked =>
        LET n == Len(StrataHotel.buildings)
            matches(i) == strata_address_matches(ClaimAddress, StrataAddressAt(i))
        IN  /\ Len(checks) \in 1..(n + 1)
            /\ \A j \in 1..Len(checks) : checks[j] = j - 1
            /\ \A j \in 1..(Len(checks) - 1) : ~matches(checks[j])
            /\ Len(checks) < n + 1 => matches(checks[Len(checks)])
            /\ matches(0) => checks = <<0>>

\* the first of two buildings matches and the second is not examined
C9_Witness ==
    /\ StrataChecked
    /\ Len(StrataHotel.buildings) = 2
    /\ checks = <<0, 1>>

\* C10: the unit-number normalizer is idempotent: applied to its own result
\* it returns that result.
C10_Idempotent ==
    Len(filtered) >= 2 => filtered[2] = filtered[1]

\* the normalizer has been applied to unit_number
Normalized == Len(filtered) >= 1

\* length of the keyword that stands at index i as a whole word (0 when none
\* does): a word boundary in front of it and a word boundary behind it
WholeWordMatchLen(s, i) ==
    LET hits == {k \in DOMAIN Keywords :
                    /\ KeywordAt(s, i, k)
                    /\ WordBoundary(s, i + Len(Keywords[k]))}
    IN  IF WordBoundary(s, i) /\ hits # {}
        THEN Len(Keywords[CHOOSE k \in hits : \A j \in hits : k <= j])
        ELSE 0

\* s with every keyword that stands as a whole word removed
RECURSIVE RemoveWholeWords(_, _)
RemoveWholeWords(s, i) ==
    IF i > Len(s) THEN <<>>
    ELSE LET m == WholeWordMatchLen(s, i)
         IN  IF m > 0 THEN RemoveWholeWords(s, i + m)
             ELSE <<s[i]>> \o RemoveWholeWords(s, i + 1)

\* C11: the normalizer removes a keyword only where it stands as a whole
\* word, in any letter case and anywhere in the text; the letters of a longer
\* word that begins with or contains a keyword stay in place.
C11_WholeWordKeywords ==
    Normalized =>
        filtered[1] = upper(strip_leading_zeros(remove_separators(
                          RemoveWholeWords(strip_leading_marks(unit_number), 1))))

\* the four examples of the normalizer
ExampleResult(u) ==
    IF u = <<"S","u","i","t","e"," ","4","B">> THEN <<"4","B">>
    ELSE IF u = <<"#","0","0","7","A">> THEN <<"7","A">>
    ELSE IF u = <<"U","n","i","t"," ","1","2"," ","-"," ","C">> THEN <<"1","2","C">>
    ELSE <<"3">>

\* u without its hyphens, periods and whitespace
WithoutSeparators(u) == SelectSeq(u, LAMBDA ch : ch \notin {"-", ".", " ", "\t", "\n", "\r"})

\* u without the zeros it starts with, when a letter or digit follows them
WithoutLeadingZeros(u) ==
    IF \E i \in 1..Len(u) : /\ u[i] # "0" /\ u[i] \in WordChars \ {"_"}
                             /\ \A j \in 1..(i - 1) : u[j] = "0"
    THEN SubSeq(u, CHOOSE i \in 1..Len(u) : u[i] # "0" /\ \A j \in 1..(i - 1) : u[j] = "0",
                Len(u))
    ELSE u

\* C12: the five steps give "Suite 4B" -> "4B", "#007A" -> "7A",
\* "Unit 12 - C" -> "12C" and "APT 3" -> "3", and two unit numbers that differ
\* only by a leading #, by keywords, by their separators, by leading zeros or
\* by letter case have the same normalized form.
C12_SameToken ==
    Normalized =>
        /\ unit_number \in UnitExamples => filtered[1] = ExampleResult(unit_number)
        /\ unit_number = UnitWithMark => filtered[1] = get_filtered_unit_number(<<"4">>)
        /\ filtered[1] = get_filtered_unit_number(lower(unit_number))
        /\ filtered[1] = get_filtered_unit_number(<<"#">> \o unit_number)
        /\ filtered[1] = get_filtered_unit_number(RemoveWholeWords(unit_number, 1))
        /\ filtered[1] = get_filtered_unit_number(WithoutLeadingZeros(unit_number))
        /\ filtered[1] = get_filtered_unit_number(WithoutSeparators(unit_number))

\* the text given to the leading-zero step: unit_number after the first
\* three steps
BeforeZeroStep == remove_separators(remove_keywords(strip_leading_marks(unit_number)))

\* the characters of s at the indexes of keep, in order
RECURSIVE KeepFrom(_, _, _)
KeepFrom(s, i, keep) ==
    IF i > Len(s) THEN <<>>
    ELSE (IF i \in keep THEN <<s[i]>> ELSE <<>>) \o KeepFrom(s, i + 1, keep)

\* index i of s is a zero of the run of zeros its token starts with; a token
\* is a longest run of characters of T
InLeadingZeros(s, i, T) ==
    \E j \in 1..i : /\ j = 1 \/ s[j - 1] \notin T
                    /\ \A k \in j..i : s[k] = "0"

\* s where a zero is removed exactly when it belongs to the leading zeros of
\* its token and a further character of the token follows it
ZerosStripped(s, T) ==
    KeepFrom(s, 1, {i \in 1..Len(s) :
                      ~(InLeadingZeros(s, i, T) /\ i < Len(s) /\ s[i + 1] \in T)})

\* letters and digits
Alphanumeric == WordChars \ {"_"}

\* the sub-claims of C13 that do not depend on what a token is made of
ZeroStepKeeps ==
    /\ BeforeZeroStep # <<>> /\ (\A i \in DOMAIN BeforeZeroStep : BeforeZeroStep[i] = "0")
          => filtered[1] # <<>>
    /\ (\A i \in DOMAIN BeforeZeroStep : ~InLeadingZeros(BeforeZeroStep, i, WordChars))
          => filtered[1] = upper(BeforeZeroStep)

\* C13 (as stated): the leading-zero step removes the leading zeros of a
\* token only when further alphanumeric content follows them; a token of
\* zeros only is never reduced to the empty text; a token with no leading
\* zero is left unchanged.
C13_Original ==
    Normalized =>
        /\ filtered[1] = upper(ZerosStripped(BeforeZeroStep, Alphanumeric))
        /\ ZeroStepKeeps

\* C13 (amended): as stated, with a token being a run of word characters:
\* letters, digits and the underscore, so that leading zeros are removed also
\* when only an underscore follows them.
C13_LeadingZeros ==
    Normalized =>
        /\ filtered[1] = upper(ZerosStripped(BeforeZeroStep, WordChars))
        /\ ZeroStepKeeps

\* "00" keeps one zero, "004" loses both
C13_Witness ==
    /\ Len(filtered) >= 2
    /\ unit_number = <<"0", "0", "4">>
    /\ filtered[1] = <<"4">>
    /\ get_filtered_unit_number(<<"0", "0">>) = <<"0">>

\* the request passed the schema and its identifier is the number of a
\* stored registration
RegistrationFound ==
    /\ WellFormed(request_json)
    /\ request_json["identifier"] \in DOMAIN registrations

\* C14: a result is all-errors-or-clean: no response holds errors together
\* with status or validUntil; the status code is 400 or 404 exactly when
\* errors is present (200 otherwise); validUntil is present exactly when the
\* registration is ACTIVE and no error was produced.
C14_ErrorsOrClean ==
    pc = "returned" =>
        /\ ~("errors" \in DOMAIN response
             /\ ("status" \in DOMAIN response \/ "validUntil" \in DOMAIN response))
        /\ (status_code \in {BAD_REQUEST, NOT_FOUND}) <=> ("errors" \in DOMAIN response)
        /\ (status_code = OK) <=> ("errors" \notin DOMAIN response)
        /\ ("validUntil" \in DOMAIN response)
             <=> /\ RegistrationFound
                 /\ Stored.status = "ACTIVE"
                 /\ "errors" \notin DOMAIN response
        /\ "errors" \in DOMAIN response => response["errors"] # <<>>

\* an ACTIVE host registration with two failing checks: errors and nothing else
C14_Witness ==
    /\ pc = "returned"
    /\ RegistrationFound
    /\ Stored.status = "ACTIVE"
    /\ status_code = BAD_REQUEST
    /\ Len(response["errors"]) >= 2
    /\ DOMAIN response = DOMAIN request_json \cup {"errors"}

\* C15: no exception propagates out of the matching logic: for every request
\* that passes the schema and every stored registration, also one whose
\* postal code, unit number, street number or street-address line is missing
\* or empty, check_permit_details returns a response and a status code.
C15_NoException == pc # "raised"

\* C16: the orchestrator is linear: the registration is looked up only after
\* the schema validation has succeeded, the permit is matched only after a
\* registration was found, the audit record is written after response and
\* status code are final and before they are returned, and each step runs at
\* most once in a call.
C16_LinearOrchestrator ==
    pc = "returned" =>
        /\ calls \in {<<"validate",
                        "create_real_time_validation_audit_record", "return">>,
                      <<"validate", "find_by_registration_number",
                        "create_real_time_validation_audit_record", "return">>,
                      <<"validate", "find_by_registration_number", "check_permit_details",
                        "create_real_time_validation_audit_record", "return">>}
        /\ ("find_by_registration_number" \in Range(calls)) <=> WellFormed(request_json)
        /\ ("check_permit_details" \in Range(calls)) <=> RegistrationFound
        /\ \A c \in Range(calls) : Count(calls, c) = 1
        /\ audit[Len(audit)].response_json = response
        /\ audit[Len(audit)].status_code = status_code

\* a call that went through every step and ended with 400
C16_Witness ==
    /\ pc = "returned"
    /\ Len(calls) = 5
    /\ calls[3] = "check_permit_details"
    /\ status_code = BAD_REQUEST

OtherTypeChecked ==
    /\ pc = "returned"
    /\ Stored.status = "ACTIVE"
    /\ Stored.registration_type \notin {"HOST", "STRATA_HOTEL"}

\* C18: for an ACTIVE registration whose type is neither HOST nor
\* STRATA_HOTEL no address check is performed and the result is 200 with
\* status and validUntil, whatever the claimed address.
C18_OtherTypes ==
    OtherTypeChecked =>
        /\ checks = <<>>
        /\ status_code = OK
        /\ "errors" \notin DOMAIN response
        /\ response["status"] = "ACTIVE"
        /\ response["validUntil"]
             = strftime_ymd(as_legislation_timezone(Stored.expiry_date))

\* a platform registration accepts an address that matches nothing on file
C18_Witness ==
    /\ OtherTypeChecked
    /\ Stored.registration_type = "PLATFORM"
    /\ ClaimAddress["streetNumber"] = <<"9","9","9">>
    /\ ClaimAddress["postalCode"] = <<"X","0","X","0","X","0">>
    /\ status_code = OK

\* a query of the application table has ended
Queried(operation) ==
    /\ pc \in {"returned", "raised"}
    /\ query # <<>>
    /\ query.operation = operation

\* C19: find_by_account gives a caller who is not an examiner only
\* applications whose payment_account is the given account_id, whatever the
\* other filter criteria, sort and paging; applications of other accounts are
\* returned only when is_examiner is true; a DRAFT application is returned
\* only when include_draft is set; search_applications never returns a DRAFT
\* application.
C19_AccountRestriction ==
    /\ Queried("find_by_account") =>
          \A i \in DOMAIN paginated_result :
              /\ paginated_result[i] \in applications
              /\ paginated_result[i].payment_account # query.account_id
                    => query.is_examiner
              /\ paginated_result[i].status = DRAFT
                    => query.filter_criteria.include_draft
    /\ Queried("search_applications") =>
          \A i \in DOMAIN paginated_result :
              /\ paginated_result[i] \in applications
              /\ paginated_result[i].status # DRAFT

\* a caller who is not an examiner gets its own draft, found by record number
\* and status, from a table that also holds a draft of another account
C19_Witness ==
    /\ Queried("find_by_account")
    /\ ~query.is_examiner
    /\ query.filter_criteria.record_number # <<>>
    /\ query.filter_criteria.statuses # <<>>
    /\ Len(paginated_result) = 1
    /\ paginated_result[1].status = DRAFT
    /\ \E a \in applications : a.payment_account # query.account_id /\ a.status = DRAFT

\* the digits
IsNumber(t) == \A i \in DOMAIN t : t[i] \in Digits

\* C20: generate_unique_application_number ends after at most 10 generation
\* attempts: it returns the first generated 14-digit number that no stored
\* application uses (every number generated before it was in use), it raises
\* ValueError when all 10 attempts collide, and it never returns a number that
\* was in use when it was checked.
C20_UniqueNumber ==
    /\ attempts <= 10
    /\ pc = "generating" =>
          /\ attempts >= 1
          /\ \E a \in applications : a.application_number = new_number
    /\ pc = "returned" /\ attempts > 0 =>
          /\ Len(new_number) = 14 /\ IsNumber(new_number)
          /\ \A a \in applications : a.application_number # new_number
    /\ pc = "raised" =>
          /\ attempts = 10
          /\ \E a \in applications : a.application_number = new_number

\* a free number came out after two numbers that were in use
C20_Witness ==
    /\ pc = "returned"
    /\ attempts = 3
    /\ applications # {}
    /\ \A a \in applications : a.application_number # new_number

\* to_dict has returned the dict of the application it was given
Serialized == pc = "returned" /\ query # <<>> /\ query.operation = "to_dict"

\* the application given to to_dict, as it was before the call
SerializedArgument == query.application

\* the application is FULL_REVIEW_APPROVED and its registration has
\* certificates
Certified ==
    /\ SerializedArgument.status = Status.FULL_REVIEW_APPROVED
    /\ SerializedArgument.registration[1].certificates # <<>>

\* C21: in the dict to_dict returns, hostStatus is "Pending Review" for a
\* set-aside application and otherwise the HOST_STATUSES label of the status,
\* "" for a status the table lacks; examinerActions is empty for a
\* FULL_REVIEW_APPROVED application whose registration has certificates, set
\* aside or not, otherwise ["APPROVE", "REJECT"] for a set-aside application
\* whatever its status, otherwise the EXAMINER_ACTIONS entry of the status,
\* [] for a status the table lacks; and the application_json stored with the
\* application is what it was before the call.
C21_HeaderActions ==
    Serialized =>
        LET application == SerializedArgument
            header == response["header"]
        IN  /\ application.is_set_aside => header["hostStatus"] = "Pending Review"
            /\ ~application.is_set_aside =>
                   header["hostStatus"] = IF application.status \in DOMAIN HOST_STATUSES
                                          THEN HOST_STATUSES[application.status]
                                          ELSE ""
            /\ Certified => header["examinerActions"] = <<>>
            /\ ~Certified /\ application.is_set_aside =>
                   header["examinerActions"] = <<"APPROVE", "REJECT">>
            /\ ~Certified /\ ~application.is_set_aside =>
                   header["examinerActions"] = IF application.status \in DOMAIN EXAMINER_ACTIONS
                                               THEN EXAMINER_ACTIONS[application.status]
                                               ELSE <<>>
            /\ \A stored \in applications :
                   stored.application_json = application.application_json

\* a set-aside FULL_REVIEW_APPROVED application whose registration has
\* certificates and whose stored header had examiner actions was serialized:
\* the dict has the label of a set-aside application and no examiner action
C21_Witness ==
    /\ Serialized
    /\ SerializedArgument.is_set_aside
    /\ Certified
    /\ "header" \in DOMAIN SerializedArgument.application_json
    /\ "examinerActions" \in DOMAIN SerializedArgument.application_json["header"]
    /\ response["header"]["hostStatus"] = "Pending Review"
    /\ response["header"]["examinerActions"] = <<>>

====
